---- MODULE Spec2Model ----
(***************************************************************************)
(* url2epub: the article-to-EPUB pipeline.                                 *)
(*                                                                         *)
(*   getEpub (cloudrun/rest.go)  ->  GetHTML (client.go)                   *)
(*                               ->  Node.Readable (readable.go)           *)
(*                                     readableRecursive, downloadImage    *)
(*                               ->  Epub (epub.go), ziputil               *)
(*                                                                         *)
(* A document is a flat sequence of nodes in document (pre-) order, each   *)
(* node naming its parent by index; index 1 is the <html> element.         *)
(***************************************************************************)
EXTENDS Integers, Sequences, FiniteSets, TLC

\* ------------------------------------------------------------------ bounds

\* A document body holds at most MaxBlocks top-level blocks.
MaxBlocks == 2

\* Documents of the model hold at most MaxImages image elements.
MaxImages == 2

\* ------------------------------------------------------------- small helpers

Range(s) == {s[i] : i \in DOMAIN s}

RECURSIVE SeqsUpTo(_, _)
\* All sequences over S of length at most n.
SeqsUpTo(S, n) ==
    IF n = 0 THEN {<<>>}
    ELSE LET shorter == SeqsUpTo(S, n - 1)
         IN  shorter \cup {Append(s, x) : s \in {t \in shorter : Len(t) = n - 1}, x \in S}

\* s without its i-th element: append(s[:i], s[i+1:]...).
RemoveAt(s, i) == [k \in 1..(Len(s) - 1) |-> IF k < i THEN s[k] ELSE s[k + 1]]

\* ------------------------------------------------------------------- URLs
\* A URL (net/url.URL): scheme, host, whether the path starts with "/",
\* and the path segments.  ok = FALSE is a string url.Parse rejects.

URL(scheme, host, abs, segs) ==
    [ok |-> TRUE, scheme |-> scheme, host |-> host, abs |-> abs, segs |-> segs]

BadURL == [ok |-> FALSE, scheme |-> "", host |-> "", abs |-> FALSE, segs |-> <<>>]

\* The final URL of the article fetch: https://example.com/d/x
BaseURL == URL("https", "example.com", TRUE, <<"d", "x">>)

\* url.URL.ResolveReference (RFC 3986 section 5.2, no dot segments).
ResolveReference(base, ref) ==
    IF ref.scheme # "" THEN ref
    ELSE IF ref.host # "" THEN URL(base.scheme, ref.host, TRUE, ref.segs)
    ELSE IF ref.segs = <<>> THEN base
    ELSE IF ref.abs THEN URL(base.scheme, base.host, TRUE, ref.segs)
    ELSE URL(base.scheme, base.host, TRUE,
             SubSeq(base.segs, 1, Len(base.segs) - 1) \o ref.segs)

\* url.URL.String of an absolute URL: scheme "://" host "/" seg "/" seg ...
URLString(u) == <<u.scheme, "://", u.host>> \o
                [k \in 1..(2 * Len(u.segs)) |-> IF k % 2 = 1 THEN "/" ELSE u.segs[k \div 2]]

\* path.Ext of a file name of the model.
ExtOfName(name) ==
    CASE name \in {"a.png", "001.png", "002.png", "003.png", "004.png"} -> ".png"
      [] name \in {"b.jpg", "small.jpg", "big.jpg", "001.jpg", "002.jpg", "003.jpg", "004.jpg"}
            -> ".jpg"
      [] name \in {"c.gif", "001.gif", "002.gif", "003.gif", "004.gif"} -> ".gif"
      [] name = "x." -> "."
      [] OTHER -> ""

\* path.Ext(srcURL.Path)
PathExt(u) == IF u.segs = <<>> THEN "" ELSE ExtOfName(u.segs[Len(u.segs)])

\* ------------------------------------------------------- readable whitelist

imgSrc == "src"
imgSrcset == "srcset"
jpgExt == ".jpg"
langKey == "lang"

\* imgAtoms
imgAtoms == {"img", "source"}

\* atoms: the elements kept in the readable html, each with the attributes
\* kept inside it.
atoms ==
    [t \in {"a", "abbr", "acronym", "html", "img", "source",
            "article", "b", "big", "blockquote", "body", "br", "center", "cite",
            "code", "content", "del", "details", "dd", "dfn", "div", "dl", "dt",
            "em", "figure", "figcaption", "footer", "h1", "h2", "h3", "h4", "h5",
            "h6", "head", "header", "i", "li", "main", "mark", "noscript", "ol",
            "p", "picture", "pre", "q", "s", "section", "small", "span", "strike",
            "strong", "sub", "summary", "sup", "table", "tbody", "tfoot", "td",
            "th", "thead", "tr", "time", "title", "u", "ul"} |->
        CASE t = "a" -> {"href"}
          [] t \in {"abbr", "acronym"} -> {"title"}
          [] t = "html" -> {"lang"}
          [] t = "img" -> {imgSrc, imgSrcset, "alt"}
          [] t = "source" -> {imgSrc, imgSrcset, "type"}
          [] OTHER -> {}]

imgSrcAlternatives == {"nitro-lazy-src", "data-src"}

keepEmptyAtoms == {"br", "td"}

\* Tags html/atom knows (DataAtom # 0) among the tags of the model; any other
\* tag, such as amp-img, has DataAtom = 0.
KnownAtoms == DOMAIN atoms \cup {"script", "meta", "style", "link"}

\* ampAtoms: amp elements replaced by their atom equivalents.
ampAtoms == [t \in {"amp-img"} |-> "img"]

\* --------------------------------------------------------------- DOM nodes

Str(s) == [kind |-> "str", s |-> s]
UrlVal(u) == [kind |-> "url", u |-> u]
SrcsetVal(items) == [kind |-> "srcset", items |-> items]
FileVal(f) == [kind |-> "file", f |-> f]

Attr(k, v) == [Key |-> k, Val |-> v]

\* html.Node: Type, Data (the tag of an element, the text of a text node),
\* Attr, the parent's index, and for a <noscript> the parse of its text child.
Elem(tag, attrs, parent) ==
    [Type |-> "element", Data |-> tag, Attr |-> attrs, parent |-> parent, inner |-> <<>>]
Text(data, parent) ==
    [Type |-> "text", Data |-> data, Attr |-> <<>>, parent |-> parent, inner |-> <<>>]
Comment(parent) ==
    [Type |-> "comment", Data |-> "c", Attr |-> <<>>, parent |-> parent, inner |-> <<>>]
\* <noscript> whose single text child parses to the elements `inner`.
Noscript(inner, parent) ==
    [Type |-> "element", Data |-> "noscript", Attr |-> <<>>, parent |-> parent, inner |-> inner]

\* strings.TrimSpace(node.Data) == ""
IsBlank(data) == data \in {"", " ", "\n "}

\* Children of node i of document d, in order.
Children(d, i) == {j \in DOMAIN d : d[j].parent = i}

RECURSIVE SubtreeEndFrom(_, _, _)
\* The last index of the subtree rooted at i, which reaches j at least.
SubtreeEndFrom(d, i, j) ==
    IF j = Len(d) \/ d[j + 1].parent < i THEN j ELSE SubtreeEndFrom(d, i, j + 1)

\* The last index of the subtree rooted at i (documents are in pre-order).
SubtreeEnd(d, i) == SubtreeEndFrom(d, i, i)

Subtree(d, i) == i..SubtreeEnd(d, i)

\* Node.FindFirstAtomNode from the root: the first element with tag a in
\* depth-first order, 0 when there is none.
FindFirstAtomNode(d, a) ==
    LET hits == {i \in DOMAIN d : d[i].Type = "element" /\ d[i].Data = a}
    IN  IF hits = {} THEN 0 ELSE CHOOSE i \in hits : \A j \in hits : i <= j

\* Node.GetLang
GetLang(d) ==
    LET h == FindFirstAtomNode(d, "html")
        ks == IF h = 0 THEN {} ELSE {k \in DOMAIN d[h].Attr : d[h].Attr[k].Key = langKey}
    IN  IF ks = {} THEN "" ELSE d[h].Attr[CHOOSE k \in ks : \A m \in ks : k <= m].Val.s

\* ------------------------------------------------------ image source lookup

\* A nil *url.URL.
NilURL == BadURL

allowedSrcSchemes == {"", "https", "http"}

\* The text of an attribute as url.Parse reads it.
ParseURL(val) == IF val.kind = "url" THEN val.u ELSE BadURL

\* tryParseImgURL
tryParseImgURL(val) ==
    LET u == ParseURL(val)
    IN  IF u.ok /\ u.scheme \in allowedSrcSchemes THEN u ELSE NilURL

\* One comma-separated item of a srcset: whether srcsetRE matches it, the url
\* group and the width group (0 when the item has no width descriptor).
SrcsetItem(u, w) == [match |-> TRUE, u |-> u, w |-> w]
SrcsetNoMatch == [match |-> FALSE, u |-> BadURL, w |-> 0]

RECURSIVE SrcsetLoop(_, _, _, _)
\* The loop of tryParseImgSrcset from item k on.
SrcsetLoop(items, k, maxWidth, maxURL) ==
    IF k > Len(items) THEN maxURL
    ELSE LET item == items[k]
             u == tryParseImgURL(UrlVal(item.u))
         IN  IF ~item.match THEN SrcsetLoop(items, k + 1, maxWidth, maxURL)
             ELSE IF item.w > maxWidth /\ u # NilURL
                  THEN SrcsetLoop(items, k + 1, item.w, u)
                  ELSE SrcsetLoop(items, k + 1, maxWidth, maxURL)

\* tryParseImgSrcset
tryParseImgSrcset(val) ==
    IF val.kind = "srcset" THEN SrcsetLoop(val.items, 1, -1, NilURL) ELSE NilURL

RECURSIVE FirstParsed(_, _, _)
\* The first loop of findSrcURLFromIMGNode from position k of srcIndices on
\* (index 0 stands for Go's -1).
FirstParsed(attrs, srcIndices, k) ==
    IF k > Len(srcIndices) THEN NilURL
    ELSE IF srcIndices[k] = 0 THEN FirstParsed(attrs, srcIndices, k + 1)
    ELSE LET u == tryParseImgURL(attrs[srcIndices[k]].Val)
         IN  IF u # NilURL THEN u ELSE FirstParsed(attrs, srcIndices, k + 1)

\* findSrcURLFromIMGNode with the srcset looked at before the src attributes.
findSrcURLFromIMGNodeSrcsetFirst(attrs, srcIndices, srcsetIndex) ==
    LET u == IF srcsetIndex = 0 THEN NilURL ELSE tryParseImgSrcset(attrs[srcsetIndex].Val)
    IN  IF u # NilURL THEN u ELSE FirstParsed(attrs, srcIndices, 1)

\* findSrcURLFromIMGNode
findSrcURLFromIMGNode(attrs, srcIndices, srcsetIndex) ==
    LET u == FirstParsed(attrs, srcIndices, 1)
    IN  IF u # NilURL THEN u
        ELSE IF srcsetIndex = 0 THEN NilURL
        ELSE tryParseImgSrcset(attrs[srcsetIndex].Val)

\* ------------------------------------------------- readableRecursive, per node

\* The noscript case of readableRecursive: the <img> found in the parse of the
\* single text child of a <noscript>, <<>> when the <noscript> has no single
\* text child or its text holds no <img> (node.inner is that parse).
NoscriptImg(d, i) ==
    LET kids == Children(d, i)
    IN  IF Cardinality(kids) = 1 /\ (\A j \in kids : d[j].Type = "text")
        THEN d[i].inner ELSE <<>>

\* The node readableRecursive copies: the <img> of a <noscript>, else the
\* node itself.
EffectiveNode(d, i) ==
    IF d[i].Type = "element" /\ d[i].Data = "noscript" /\ NoscriptImg(d, i) # <<>>
    THEN Elem("img", NoscriptImg(d, i)[1], d[i].parent)
    ELSE d[i]

\* newNode.DataAtom after the ampAtoms replacement, "" for atom 0.
NewAtom(node) ==
    IF node.Data \in KnownAtoms THEN node.Data
    ELSE IF node.Data \in DOMAIN ampAtoms THEN ampAtoms[node.Data]
    ELSE ""

\* Whether the attribute loop appends attr to newNode.Attr.
KeepsAttr(atom, key) ==
    \/ atom = "img" /\ key \in imgSrcAlternatives
    \/ key \in atoms[atom]

RECURSIVE AttrLoop(_, _, _, _)
\* The attribute loop of readableRecursive from source attribute k on;
\* acc = [Attr, srcIndex, srcsetIndex, altSrcIndices], indices 1-based and 0
\* for Go's -1.
AttrLoop(atom, src, k, acc) ==
    IF k > Len(src) THEN acc
    ELSE LET attr == src[k]
             i == Len(acc.Attr) + 1
         IN  IF ~KeepsAttr(atom, attr.Key) THEN AttrLoop(atom, src, k + 1, acc)
             ELSE AttrLoop(atom, src, k + 1,
                    [Attr |-> Append(acc.Attr, attr),
                     srcIndex |-> IF attr.Key = imgSrc THEN i ELSE acc.srcIndex,
                     srcsetIndex |-> IF attr.Key = imgSrcset THEN i ELSE acc.srcsetIndex,
                     altSrcIndices |->
                        IF atom = "img" /\ attr.Key \in imgSrcAlternatives
                        THEN Append(acc.altSrcIndices, i) ELSE acc.altSrcIndices])

CopyAttrs(atom, src) ==
    AttrLoop(atom, src, 1,
             [Attr |-> <<>>, srcIndex |-> 0, srcsetIndex |-> 0, altSrcIndices |-> <<>>])

\* The source URL readableRecursive picks for an image element, NilURL when
\* the element has no usable one.
ImageSrcURL(node) ==
    LET c == CopyAttrs(NewAtom(node), node.Attr)
    IN  findSrcURLFromIMGNode(c.Attr, <<c.srcIndex>> \o c.altSrcIndices, c.srcsetIndex)

\* What readableRecursive does with node i, before it looks at any child:
\*   "nil"      returns nil (nothing kept, children not visited)
\*   "text"     returns a copy of the text node
\*   "image"    resolves the source, names the local file, returns the <img>
\*   "descend"  copies the element and recurses into the children
NodeCase(d, i) ==
    LET node == EffectiveNode(d, i)
        atom == NewAtom(node)
    IN  IF d[i].Type = "text" THEN (IF IsBlank(d[i].Data) THEN "nil" ELSE "text")
        ELSE IF d[i].Type # "element" THEN "nil"
        ELSE IF d[i].Data = "noscript" /\ NoscriptImg(d, i) = <<>> THEN "nil"
        ELSE IF atom \notin DOMAIN atoms THEN "nil"
        ELSE IF atom \in imgAtoms
             THEN (IF ImageSrcURL(node) = NilURL THEN "nil" ELSE "image")
        ELSE "descend"

\* The attributes of an <img> whose src is left as the page wrote it.
ImageAttrsSrcUntouched(node, filename) ==
    LET c == CopyAttrs(NewAtom(node), node.Attr)
    IN  IF c.srcsetIndex > 0 THEN RemoveAt(c.Attr, c.srcsetIndex) ELSE c.Attr

\* The attributes of an <img> whose srcset is left in place.
ImageAttrsKeepSrcset(node, filename) ==
    LET c == CopyAttrs(NewAtom(node), node.Attr)
    IN  IF c.srcIndex = 0
        THEN Append(c.Attr, Attr(imgSrc, FileVal(filename)))
        ELSE [c.Attr EXCEPT ![c.srcIndex].Val = FileVal(filename)]

\* The attributes of the <img> readableRecursive returns for an image element
\* whose local file is filename: src set (appended when absent), srcset removed.
ImageAttrs(node, filename) ==
    LET c == CopyAttrs(NewAtom(node), node.Attr)
        withSrc == IF c.srcIndex = 0
                   THEN Append(c.Attr, Attr(imgSrc, FileVal(filename)))
                   ELSE [c.Attr EXCEPT ![c.srcIndex].Val = FileVal(filename)]
    IN  IF c.srcsetIndex > 0 THEN RemoveAt(withSrc, c.srcsetIndex) ELSE withSrc

\* ------------------------------------------------------- local file names

\* ImagesDir as getEpub sets it.
imagesDir == "images"

DigitChar(d) == <<"0", "1", "2", "3", "4", "5", "6", "7", "8", "9">>[d + 1]

RECURSIVE Digits(_)
\* The decimal digits of n, most significant first.
Digits(n) == IF n < 10 THEN <<DigitChar(n)>> ELSE Append(Digits(n \div 10), DigitChar(n % 10))

\* fmt.Sprintf("%03d", n): zero padded to at least three digits.
Sprintf03(n) ==
    LET ds == Digits(n)
    IN  IF Len(ds) >= 3 THEN ds ELSE [k \in 1..(3 - Len(ds)) |-> "0"] \o ds

\* A numbering that starts at 000: the properties of the numbering must
\* tell it from the one of the code.
LocalFilenameFromZero(counter, ext) ==
    (IF imagesDir = "" THEN <<>> ELSE <<imagesDir, "/">>) \o Sprintf03(counter - 1) \o <<ext>>

\* path.Join(imagesDir, fmt.Sprintf("%03d", counter) + ext): the directory,
\* the digits and the extension of the local file.
LocalFilename(counter, ext) ==
    (IF imagesDir = "" THEN <<>> ELSE <<imagesDir, "/">>) \o Sprintf03(counter) \o <<ext>>

\* An extension taken from the URL even when the image is re-encoded.
LocalExtOfURL(srcURL, isGray) == PathExt(srcURL)

\* The extension of the local file of srcURL.
LocalExt(srcURL, isGray) == IF isGray THEN jpgExt ELSE PathExt(srcURL)

\* A key taken before the reference is resolved, under which two spellings
\* of one URL are two images.
MappingKeyUnresolved(srcURL) == URLString(srcURL)

\* The key of imgMapping for a source URL: srcURL.String() after
\* baseURL.ResolveReference(srcURL).
MappingKey(srcURL) == URLString(ResolveReference(BaseURL, srcURL))

\* *imgCounter after an image element whose key is (exists) or is not yet in
\* imgMapping.
CounterAfter(counter, exists) == IF exists THEN counter ELSE counter + 1

\* ----------------------------------------------------------- image bytes

\* io.Reader values of the image slots.
NilReader == [kind |-> "nil", bytes |-> <<>>]
Buffer(bytes) == [kind |-> "bytes.Buffer", bytes |-> bytes]
\* strings.NewReader("")
EmptyStringsReader == [kind |-> "strings.Reader", bytes |-> <<>>]

\* The body the server sends for an absolute URL, in chunks; the first chunk
\* holds the magic number of the file type.
Content(u) == <<PathExt(u), u.host, u.segs[Len(u.segs)], "end">>

\* jpeg.Encode of the grayscaled, downscaled image decoded from bytes.
JPEGOf(bytes) == <<jpgExt, "gray16">> \o SubSeq(bytes, 2, Len(bytes))

\* A FromReader without the deferred copy, whose orig stops where the
\* decoder stopped.
DeferredDrainNone(body, k) == <<>>

\* grayscale.FromReader: what the deferred io.Copy(io.Discard, r) still pulls
\* through the TeeReader after image.Decode stopped k chunks into the body.
DeferredDrain(body, k) == SubSeq(body, k + 1, Len(body))

\* grayscale.FromReader: orig after image.Decode read k chunks of body.
FromReaderOrig(body, k) == SubSeq(body, 1, k) \o DeferredDrain(body, k)

\* downloadImage: the reader stored in *dest, by outcome.
\*   get failed:                  nothing is stored
\*   not gray:                    a buffer with the copied body
\*   gray, FromReader failed:     orig
\*   gray, ToJPEG failed:         orig
\*   gray, all succeeded:         the encoded jpeg
DownloadResult(outcome, body, k) ==
    CASE outcome \in {"transport", "status", "cancelled"} -> NilReader
      [] outcome = "copied" -> Buffer(body)
      [] outcome = "decodeFailed" -> Buffer(FromReaderOrig(body, k))
      [] outcome = "encodeFailed" -> Buffer(FromReaderOrig(body, k))
      [] outcome = "encoded" -> Buffer(JPEGOf(body))

\* A manifest that takes the slots as they are, nil ones included.
ReturnedReaderNoNilCheck(slot) == slot

\* The reader Readable returns for a slot (lines 402-410).
ReturnedReader(slot) == IF slot # NilReader THEN slot ELSE EmptyStringsReader

\* ------------------------------------------------------------- documents

\* Image sources of the documents: three spellings of
\* https://example.com/d/a.png, one other host, one more file, and a source
\* whose scheme is not allowed.
RelA == URL("", "", FALSE, <<"a.png">>)
AbsA == URL("", "", TRUE, <<"d", "a.png">>)
FullA == URL("https", "example.com", TRUE, <<"d", "a.png">>)
FullB == URL("https", "cdn.net", TRUE, <<"b.jpg">>)
RelC == URL("", "", FALSE, <<"c.gif">>)
DataURL == URL("data", "", FALSE, <<"x">>)

\* Top-level blocks of a body.  A block is a sequence of nodes in document
\* order whose parent is an index into the block, 0 for the block's container.
BlockPara ==
    <<Elem("p", <<Attr("class", Str("lead"))>>, 0), Text("\n ", 1), Text("Body", 1)>>
BlockImg ==
    <<Elem("img", <<Attr("class", Str("hero")), Attr(imgSrc, UrlVal(RelA)),
                    Attr("alt", Str("A"))>>, 0)>>
BlockLazyImg ==
    <<Elem("img", <<Attr("data-src", UrlVal(AbsA))>>, 0)>>
BlockPicture ==
    <<Elem("picture", <<>>, 0),
      Elem("source", <<Attr("type", Str("image/jpeg")),
                       Attr(imgSrcset, SrcsetVal(<<SrcsetItem(FullA, 1), SrcsetItem(FullB, 2)>>))>>,
           1)>>
BlockAmpImg ==
    <<Elem("amp-img", <<Attr(imgSrc, UrlVal(RelA)),
                        Attr(imgSrcset, SrcsetVal(<<SrcsetItem(RelA, 320),
                                                    SrcsetItem(FullB, 1280)>>))>>, 0),
      Elem("img", <<Attr(imgSrc, UrlVal(RelC))>>, 1)>>
BlockJunk ==
    <<Elem("div", <<Attr("id", Str("ad"))>>, 0),
      Elem("script", <<>>, 1), Text("js", 2),
      Elem("img", <<Attr(imgSrc, UrlVal(DataURL)), Attr(imgSrcset, SrcsetVal(<<SrcsetNoMatch>>))>>, 1),
      Comment(1),
      Noscript(<<>>, 1),
      Elem("span", <<>>, 1)>>
BlockArticle ==
    <<Elem("article", <<>>, 0), Elem("h1", <<>>, 1), Text("H", 2),
      Elem("img", <<Attr(imgSrc, UrlVal(FullB))>>, 1)>>
BlockNoscript ==
    <<Noscript(<<(<<Attr(imgSrc, UrlVal(RelC)), Attr("width", Str("1"))>>)>>, 0),
      Text("<img>", 1)>>

Blocks == {BlockPara, BlockImg, BlockLazyImg, BlockPicture, BlockAmpImg, BlockJunk,
           BlockArticle, BlockNoscript}

\* The nodes of block b placed under node `container`, the block starting at
\* index first.
Place(b, container, first) ==
    [k \in DOMAIN b |->
        [b[k] EXCEPT !.parent = IF b[k].parent = 0 THEN container ELSE first + b[k].parent - 1]]

RECURSIVE PlaceAll(_, _, _)
PlaceAll(bs, container, first) ==
    IF bs = <<>> THEN <<>>
    ELSE LET b == Place(bs[1], container, first)
         IN  b \o PlaceAll(Tail(bs), container, first + Len(b))

\* <html lang="en"><head><title>Hello</title></head><body>blocks</body></html>,
\* and the same document without its <body>.
DocPrefix ==
    <<Elem("html", <<Attr(langKey, Str("en"))>>, 0), Elem("head", <<>>, 1),
      Elem("title", <<>>, 2), Text("Hello", 3)>>

DocOf(bs) == DocPrefix \o <<Elem("body", <<>>, 1)>> \o PlaceAll(bs, 5, 6)

DocNoBody == DocPrefix

\* The image elements of a document for which readableRecursive finds a source.
ImageElems(d) == {i \in DOMAIN d : NodeCase(d, i) = "image"}

Docs == {d \in {DocOf(bs) : bs \in SeqsUpTo(Blocks, MaxBlocks)} :
            Cardinality(ImageElems(d)) <= MaxImages} \cup {DocNoBody}

\* Values of ReadableArgs.MinArticleNodes: the check disabled, and a
\* threshold above the size of the <article> of the documents.
MinArticleChoices == {0, 5}

\* ----------------------------------------------------------- countRecursive

\* A text case that never reports the minimum itself.
CountTextNeverHits(data, minCount) ==
    IF IsBlank(data) THEN [count |-> 0, hasMin |-> FALSE] ELSE [count |-> 1, hasMin |-> FALSE]

\* countRecursive, lines 485-494: the case of a text node.
CountText(data, minCount) ==
    IF IsBlank(data) THEN [count |-> 0, hasMin |-> FALSE]
    ELSE IF minCount <= 1 THEN [count |-> 0, hasMin |-> TRUE]
    ELSE [count |-> 1, hasMin |-> FALSE]

RECURSIVE countRecursive(_, _, _)
RECURSIVE CountChildren(_, _, _, _, _)

\* The loop of countRecursive over the children j.. of node i, count and
\* minCount as they stand before child j.
CountChildren(d, i, j, count, minCount) ==
    IF j > SubtreeEnd(d, i) THEN [count |-> count, hasMin |-> FALSE]
    ELSE LET sub == countRecursive(d, j, minCount)
             next == SubtreeEnd(d, j) + 1
         IN  IF sub.hasMin THEN [count |-> 0, hasMin |-> TRUE]
             ELSE IF minCount - sub.count <= 0
                  THEN [count |-> count + sub.count, hasMin |-> FALSE]
                  ELSE CountChildren(d, i, next, count + sub.count, minCount - sub.count)

\* Node.countRecursive(minCount) on node i.
countRecursive(d, i, minCount) ==
    IF i = 0 THEN [count |-> 0, hasMin |-> FALSE]
    ELSE IF d[i].Type = "text" THEN CountText(d[i].Data, minCount)
    ELSE IF d[i].Type # "element" THEN [count |-> 0, hasMin |-> FALSE]
    ELSE IF d[i].Data \notin DOMAIN atoms THEN [count |-> 0, hasMin |-> FALSE]
    ELSE IF minCount - 1 <= 0 THEN [count |-> 0, hasMin |-> TRUE]
    ELSE CountChildren(d, i, i + 1, 1, minCount - 1)

\* -------------------------------------------------------------------- EPUB

EpubMimeType == "application/epub+zip"
epubMimetypeFilename == <<"mimetype">>
epubContainerFilename == <<"META-INF", "/", "container.xml">>
epubContentDir == "content"
epubArticleFilename == "article.xhtml"
epubNavFilename == "nav.xhtml"
epubOpfFullpath == <<epubContentDir, "/", "content.opf">>

\* Entries written at the top of the archive instead of under content/.
ContentPathBare(f) == f

\* path.Join(epubContentDir, f) for a file name f given by its parts.
ContentPath(f) == <<epubContentDir, "/">> \o f

\* ziputil.WriteFile: the entry it creates.
WriteFile(filename, src) == [Name |-> filename, Method |-> "Deflate", Body |-> src]

\* A StoreFile that compresses as WriteFile does.
StoreFileDeflate(filename, src) == [Name |-> filename, Method |-> "Deflate", Body |-> src]

\* ziputil.StoreFile: the entry it creates.
StoreFile(filename, src) == [Name |-> filename, Method |-> "Store", Body |-> src]

\* http.DetectContentType on the first bytes of an image.
DetectContentType(bytes) ==
    IF bytes = <<>> THEN "text/plain; charset=utf-8"
    ELSE CASE bytes[1] = ".png" -> "image/png"
           [] bytes[1] = ".jpg" -> "image/jpeg"
           [] bytes[1] = ".gif" -> "image/gif"
           [] OTHER -> "application/octet-stream"

\* The byte a part of a file name starts with: the name of the images
\* directory, a slash, a digit, or an extension with its dot.
CharCode(p) ==
    CASE p = "0" -> 48 [] p = "1" -> 49 [] p = "2" -> 50 [] p = "3" -> 51
      [] p = "4" -> 52 [] p = "5" -> 53 [] p = "6" -> 54 [] p = "7" -> 55
      [] p = "8" -> 56 [] p = "9" -> 57
      [] p = "/" -> 47
      [] p = imagesDir -> 105
      [] p = "" -> 0
      [] OTHER -> 46

RECURSIVE StringLess(_, _)
\* a < b for two file names as Go compares strings, byte by byte.
StringLess(a, b) ==
    IF a = <<>> THEN b # <<>>
    ELSE IF b = <<>> THEN FALSE
    ELSE IF CharCode(Head(a)) # CharCode(Head(b)) THEN CharCode(Head(a)) < CharCode(Head(b))
    ELSE StringLess(Tail(a), Tail(b))

\* The least of the file names S as Go compares strings.
LeastKey(S) == CHOOSE x \in S : \A y \in S \ {x} : StringLess(x, y)

RECURSIVE SortedKeys(_)
\* text/template: a range over a map visits the keys in sorted order.
SortedKeys(S) ==
    IF S = {} THEN <<>>
    ELSE <<LeastKey(S)>> \o SortedKeys(S \ {LeastKey(S)})

\* strings.ReplaceAll(p, ".", "_") and (p, "/", "_") on one part of a path.
CleanPart(p) ==
    CASE p = "/" -> "_"
      [] p = "." -> "_"
      [] p = ".png" -> "_png"
      [] p = ".jpg" -> "_jpg"
      [] p = ".gif" -> "_gif"
      [] OTHER -> p

\* The template function CleanPath of epubOpfTmpl.
CleanPath(orig) == [k \in DOMAIN orig |-> CleanPart(orig[k])]

\* An <item> of the manifest of the package document.
OpfItem(id, href, mediaType, properties) ==
    [id |-> id, href |-> href, mediaType |-> mediaType, properties |-> properties]

xhtmlMediaType == "application/xhtml+xml"

\* The two items epubOpfTmpl writes before its range over .Images.
OpfFixedItems(data) ==
    <<OpfItem(<<"nav">>, data.NavPath, xhtmlMediaType, "nav"),
      OpfItem(data.ArticlePath, data.ArticlePath, xhtmlMediaType, "")>>

RECURSIVE OpfImageItems(_, _)
\* The items the range over .Images writes for the keys paths, in order.
OpfImageItems(paths, types) ==
    IF paths = <<>> THEN <<>>
    ELSE <<OpfItem(CleanPath(Head(paths)), Head(paths), types[Head(paths)], "")>>
             \o OpfImageItems(Tail(paths), types)

\* A package document whose manifest leaves the images out.
epubOpfTmplNoImages(data) ==
    [manifest |-> OpfFixedItems(data), spine |-> <<data.ArticlePath>>]

\* epubOpfTmpl executed on data: the <item>s of <manifest> and the
\* <itemref>s of <spine>, in the order of the template.
epubOpfTmpl(data) ==
    [manifest |-> OpfFixedItems(data) \o OpfImageItems(SortedKeys(DOMAIN data.Images), data.Images),
     spine |-> <<data.ArticlePath>>]

\* Epub: imageContentTypes after the range over args.Images.
ImageContentTypes(imgs) == [f \in DOMAIN imgs |-> DetectContentType(imgs[f].bytes)]

\* Epub: the fields of epubOpfData the manifest and the spine are made of.
epubOpfData(imgs) ==
    [ArticlePath |-> <<epubArticleFilename>>,
     NavPath |-> <<epubNavFilename>>,
     Images |-> ImageContentTypes(imgs)]

\* An Epub that writes the navigation document before the images.
EpubStepsNavFirst == <<"mimetype", "container", "article", "nav", "images", "opf">>

\* The statements of Epub that write, in the order of its code.
EpubSteps == <<"mimetype", "container", "article", "images", "nav", "opf">>

\* The entries one statement of Epub writes; `order` is the order in which
\* the range over args.Images visits the keys of the map imgs.
EpubEntries(s, imgs, order) ==
    CASE s = "mimetype" -> <<StoreFile(epubMimetypeFilename, <<EpubMimeType>>)>>
      [] s = "container" -> <<WriteFile(epubContainerFilename, <<"epubContainerContent">>)>>
      [] s = "article" -> <<WriteFile(ContentPath(<<epubArticleFilename>>), <<"html.Render">>)>>
      [] s = "images" ->
            [k \in DOMAIN order |-> WriteFile(ContentPath(order[k]), imgs[order[k]].bytes)]
      [] s = "nav" -> <<WriteFile(ContentPath(<<epubNavFilename>>), <<"epubNavTmpl">>)>>
      [] s = "opf" -> <<WriteFile(epubOpfFullpath, <<epubOpfTmpl(epubOpfData(imgs))>>)>>

RECURSIVE EpubWrites(_, _, _)
\* The entries the statements `steps` write, one after the other.
EpubWrites(steps, imgs, order) ==
    IF steps = <<>> THEN <<>>
    ELSE EpubEntries(Head(steps), imgs, order) \o EpubWrites(Tail(steps), imgs, order)

\* The orders in which a range over a map with the keys S may visit them.
RangeOrders(S) ==
    {q \in [1..Cardinality(S) -> S] : \A i, j \in DOMAIN q : q[i] = q[j] => i = j}

\* ------------------------------------------------------------------- state

VARIABLES
    doc,             \* the parsed document GetHTML returns
    gray,            \* ReadableArgs.Grayscale
    minArticleNodes, \* ReadableArgs.MinArticleNodes
    ctx,             \* the request context of getEpub: "live" or "cancelled"
    cancelledAt,     \* where getEpub stood when the request was cancelled
    pc,              \* getEpub: "GetHTML", "walk", "wait", "epub", "done"
    phase,           \* Readable: the subtree being distilled: head, article, body
    root,            \* the node the current readableRecursive walk started from
    pos,             \* the node the next readableRecursive call is made on
    out,             \* the node readableRecursive returned for each source node
    imgMapping,      \* imgMapping: absolute source URL -> local filename
    imgCounter,      \* counter
    imgPointers,     \* imgPointers: local filename -> slot of the reader
    wg,              \* the WaitGroup counter
    workers,         \* the download goroutines: filename -> [url, st]
    met,             \* the image elements readableRecursive kept, in the order met
    returned,        \* how Readable returned: "no", "ok", "error"
    tree,            \* the root Readable returned
    images,          \* the image map Readable returned
    err,             \* the error getEpub returns, "" for nil
    epubCalled,      \* whether getEpub has called Epub
    zip,             \* the entries written to the zip archive, in order
    imageContentTypes, \* Epub: imageContentTypes
    call,            \* a call of one function on its own: [op, arg, res]
    first,           \* the tree of a first distillation that is distilled again
    attempts,        \* the calls of handleURL for one message, the retry included
    sent,            \* the replies to the message, each with its channel
    gets             \* the calls of get through the shared client

vars == <<doc, gray, minArticleNodes, ctx, cancelledAt, pc, phase, root, pos, out,
          imgMapping, imgCounter, imgPointers, wg, workers, met, returned, tree,
          images, err, epubCalled, zip, imageContentTypes, call, first, attempts,
          sent, gets>>

inputVars == <<doc, gray, minArticleNodes>>
walkVars == <<phase, root, pos, out, imgMapping, imgCounter, imgPointers, met>>
epubVars == <<epubCalled, zip, imageContentTypes>>
\* The variables getEpub does not touch.
auxVars == <<call, first, attempts, sent, gets>>

\* No function is being called on its own.
NoCall == [op |-> "none", arg |-> <<>>, res |-> <<>>]

NilNode == [Type |-> "nil", Data |-> "", Attr |-> <<>>]
OutElem(tag, attrs) == [Type |-> "element", Data |-> tag, Attr |-> attrs]
OutText(data) == [Type |-> "text", Data |-> data, Attr |-> <<>>]

NoTree == [lang |-> "", head |-> 0, metas |-> <<>>, body |-> 0, article |-> FALSE]

Init ==
    /\ doc \in Docs
    /\ gray \in BOOLEAN
    /\ minArticleNodes \in MinArticleChoices
    /\ ctx = "live"
    /\ cancelledAt = "never"
    /\ pc = "GetHTML"
    /\ phase = "none"
    /\ root = 0
    /\ pos = 0
    /\ out = [i \in DOMAIN doc |-> NilNode]
    /\ imgMapping = <<>>
    /\ imgCounter = 0
    /\ imgPointers = <<>>
    /\ wg = 0
    /\ workers = <<>>
    /\ met = <<>>
    /\ returned = "no"
    /\ tree = NoTree
    /\ images = <<>>
    /\ err = ""
    /\ epubCalled = FALSE
    /\ zip = <<>>
    /\ imageContentTypes = <<>>
    /\ call = NoCall
    /\ first = <<>>
    /\ attempts = <<>>
    /\ sent = <<>>
    /\ gets = <<>>

\* The variables of getEpub.
mainVars == <<inputVars, ctx, cancelledAt, pc, walkVars, wg, workers, returned, tree,
              images, err, epubVars>>

\* No request is being served.
NoRequest ==
    /\ doc = DocNoBody
    /\ gray = FALSE
    /\ minArticleNodes = 0
    /\ ctx = "cancelled"
    /\ cancelledAt = "never"
    /\ pc = "done"
    /\ phase = "none"
    /\ root = 0
    /\ pos = 0
    /\ out = [i \in DOMAIN doc |-> NilNode]
    /\ imgMapping = <<>>
    /\ imgCounter = 0
    /\ imgPointers = <<>>
    /\ wg = 0
    /\ workers = <<>>
    /\ met = <<>>
    /\ returned = "no"
    /\ tree = NoTree
    /\ images = <<>>
    /\ err = ""
    /\ epubCalled = FALSE
    /\ zip = <<>>
    /\ imageContentTypes = <<>>

\* ------------------------------------------------------- Readable: control

RECURSIVE Alive(_, _, _)
\* Whether the readableRecursive call on node i returned a node: it built one
\* (o[i]) and did not drop it as an element without attributes and children.
Alive(d, o, i) ==
    /\ o[i] # NilNode
    /\ \/ o[i].Type = "text"
       \/ Len(o[i].Attr) > 0
       \/ o[i].Data \in keepEmptyAtoms
       \/ \E j \in Children(d, i) : Alive(d, o, j)

\* The nodes of the subtree of r that the walk from r returned.
Prune(d, o, r) ==
    [i \in DOMAIN o |-> IF i \in Subtree(d, r) /\ ~Alive(d, o, i) THEN NilNode ELSE o[i]]

Control(p, ph, i, e) == [pc |-> p, phase |-> ph, pos |-> i, err |-> e]

\* Readable, lines 354-372: the walk of <body>, or the error of a document
\* without one.
BodyStart(d) ==
    LET b == FindFirstAtomNode(d, "body")
    IN  IF b # 0 THEN Control("walk", "body", b, "")
        ELSE Control("done", "body", 0, "no body tag found")

\* A Readable that prefers the first <article> whatever it holds.
ArticleNodeAlways(d, minNodes) == FindFirstAtomNode(d, "article")

\* Readable, lines 330-338: the <article> to distill, 0 when there is none or
\* it holds fewer than minArticleNodes nodes.
ArticleNode(d, minNodes) ==
    LET a == FindFirstAtomNode(d, "article")
    IN  IF a # 0 /\ minNodes > 0 /\ ~countRecursive(d, a, minNodes).hasMin THEN 0 ELSE a

ArticleStart(d, minNodes) ==
    LET a == ArticleNode(d, minNodes)
    IN  IF a # 0 THEN Control("walk", "article", a, "") ELSE BodyStart(d)

\* Readable, line 272: the walk of <head>; readableRecursive on a nil node
\* returns at once.
HeadStart(d, minNodes) ==
    LET h == FindFirstAtomNode(d, "head")
    IN  IF h # 0 THEN Control("walk", "head", h, "") ELSE ArticleStart(d, minNodes)

\* Where Readable goes when the walk of phase ph from r has returned o.
AfterWalk(d, minNodes, ph, r, o) ==
    CASE ph = "head" -> ArticleStart(d, minNodes)
      [] ph = "article" ->
            IF o[r] # NilNode THEN Control("wait", "article", r, "") ELSE BodyStart(d)
      [] ph = "body" ->
            IF o[r] # NilNode THEN Control("wait", "body", r, "")
            ELSE Control("done", "body", r, "no body tag found")

\* The node after i in the walk: the first child when readableRecursive
\* recurses into i, else whatever follows the subtree of i.
NextPos(d, i, case) == IF case = "descend" THEN i + 1 ELSE SubtreeEnd(d, i) + 1

\* The three provenance <meta itemprop> elements Readable appends to <head>.
ProvenanceMetas ==
    <<OutElem("meta", <<Attr("itemprop", Str("generated-by"))>>),
      OutElem("meta", <<Attr("itemprop", Str("generated-at"))>>),
      OutElem("meta", <<Attr("itemprop", Str("generated-from"))>>)>>

\* A walk that never looks at the context.
CtxErrNever(c) == FALSE

\* ctx.Err() != nil, the check readableRecursive makes before it looks at a
\* node.
CtxErr(c) == c # "live"

\* A Wait that does not block.
WaitReturnsAlways(counter) == TRUE

\* wg.Wait() returns: the counter of the WaitGroup is zero.
WaitReturns(counter) == counter = 0

\* ----------------------------------------------------------------- actions

\* The request context is cancelled, or its deadline passes, while getEpub
\* fetches or distills.  (Epub takes no context: a later cancellation has no
\* effect on the request.)
Cancel ==
    /\ UNCHANGED auxVars
    /\ ctx = "live"
    /\ pc \in {"GetHTML", "walk", "wait"}
    /\ ctx' = "cancelled"
    /\ cancelledAt' = pc
    /\ UNCHANGED <<inputVars, pc, walkVars, wg, workers, returned, tree, images, err, epubVars>>

\* getEpub, lines 262-282: GetHTML, then entering Readable.  A fetch under a
\* cancelled context fails.
GetHTML ==
    /\ UNCHANGED auxVars
    /\ pc = "GetHTML"
    /\ \E ok \in BOOLEAN :
        /\ ctx = "cancelled" => ~ok
        /\ LET ctl == IF ok THEN HeadStart(doc, minArticleNodes)
                      ELSE Control("done", "none", 0, "unable to get html")
           IN  /\ pc' = ctl.pc
               /\ phase' = ctl.phase
               /\ root' = ctl.pos
               /\ pos' = ctl.pos
               /\ err' = ctl.err
               /\ returned' = IF ok /\ ctl.pc = "done" THEN "error" ELSE returned
               /\ ctx' = IF ctl.pc = "done" THEN "cancelled" ELSE ctx
    /\ UNCHANGED <<inputVars, cancelledAt, out, imgMapping, imgCounter, imgPointers, met,
                   wg, workers, tree, images, epubVars>>

\* One call of readableRecursive, on node pos: the context check, the copy of
\* the node, and for an image element the naming of its local file and the
\* start of its download.  The call on the last node of a walk also makes the
\* returns of the enclosing calls and the step of Readable that follows.
Descend ==
    /\ UNCHANGED auxVars
    /\ pc = "walk"
    /\ IF CtxErr(ctx)
       THEN /\ pc' = "done"
            /\ returned' = "error"
            /\ err' = "context canceled"
            /\ ctx' = "cancelled"
            /\ UNCHANGED <<walkVars, wg, workers>>
       ELSE LET case == NodeCase(doc, pos)
                node == EffectiveNode(doc, pos)
                atom == NewAtom(node)
                srcURL == ResolveReference(BaseURL, ImageSrcURL(node))
                key == MappingKey(ImageSrcURL(node))
                exists == key \in DOMAIN imgMapping
                counter == CounterAfter(imgCounter, exists)
                filename == IF exists THEN imgMapping[key]
                            ELSE LocalFilename(counter, LocalExt(srcURL, gray))
                newNode == CASE case = "nil" -> NilNode
                             [] case = "text" -> OutText(doc[pos].Data)
                             [] case = "image" -> OutElem("img", ImageAttrs(node, filename))
                             [] case = "descend" ->
                                    OutElem(atom, CopyAttrs(atom, node.Attr).Attr)
                out1 == [out EXCEPT ![pos] = newNode]
                next == NextPos(doc, pos, case)
                finished == next > SubtreeEnd(doc, root)
                pruned == Prune(doc, out1, root)
                ctl == AfterWalk(doc, minArticleNodes, phase, root, pruned)
            IN  /\ IF case = "image"
                   THEN /\ met' = Append(met, pos)
                        /\ imgCounter' = counter
                        /\ IF exists
                           THEN UNCHANGED <<imgMapping, imgPointers, wg, workers>>
                           ELSE /\ imgMapping' = (key :> filename) @@ imgMapping
                                /\ imgPointers' = (filename :> NilReader) @@ imgPointers
                                /\ wg' = wg + 1
                                /\ workers' = (filename :> [url |-> srcURL, st |-> "running"])
                                              @@ workers
                   ELSE UNCHANGED <<met, imgCounter, imgMapping, imgPointers, wg, workers>>
                /\ IF finished
                   THEN /\ out' = pruned
                        /\ pc' = ctl.pc
                        /\ phase' = ctl.phase
                        /\ root' = ctl.pos
                        /\ pos' = ctl.pos
                        /\ err' = ctl.err
                        /\ returned' = IF ctl.pc = "done" THEN "error" ELSE returned
                        /\ ctx' = IF ctl.pc = "done" THEN "cancelled" ELSE ctx
                   ELSE /\ out' = out1
                        /\ pos' = next
                        /\ UNCHANGED <<pc, phase, root, err, returned, ctx>>
    /\ UNCHANGED <<inputVars, cancelledAt, tree, images, epubVars>>

\* The outcomes of downloadImage under context c.
Outcomes(c, isGray) ==
    {"transport", "status"}
        \cup (IF c = "cancelled" THEN {"cancelled"} ELSE {})
        \cup (IF isGray THEN {"decodeFailed", "encodeFailed", "encoded"} ELSE {"copied"})

\* Goroutines that all write through the pointer of the first slot, as if
\* `reader` were one variable shared by the closures.
CapturedSlotFirst(f) ==
    CHOOSE g \in DOMAIN imgPointers : \A h \in DOMAIN imgPointers : ~StringLess(h, g)

\* readableRecursive, lines 646-651: the slot the goroutine of the file f
\* writes through, the `reader` allocated just before the go statement.
CapturedSlot(f) == f

\* How many chunks of the body image.Decode may have read when it stops:
\* none, one, or all of them.
DecodeStops(body) == {0, 1, Len(body)}

\* The goroutine of one image: downloadImage, then wg.Done.
Download ==
    /\ UNCHANGED auxVars
    /\ \E f \in DOMAIN workers :
        /\ workers[f].st = "running"
        /\ \E outcome \in Outcomes(ctx, gray), k \in DecodeStops(Content(workers[f].url)) :
            /\ outcome \notin {"decodeFailed", "encodeFailed"} => k = 0
            /\ workers' = [workers EXCEPT ![f].st = outcome]
            /\ imgPointers' =
                   [imgPointers EXCEPT ![CapturedSlot(f)] =
                       DownloadResult(outcome, Content(workers[f].url), k)]
        /\ wg' = wg - 1
        /\ UNCHANGED <<inputVars, ctx, cancelledAt, pc, phase, root, pos, out, imgMapping,
                       imgCounter, met, returned, tree, images, err, epubVars>>

\* errUnsupportedURL of the cloudrun package.
errUnsupportedURL == "unsupported URL"

\* Readable, lines 382-411, once wg.Wait returns; then getEpub up to its call
\* of Epub: a nil node (root = 0) is turned into errUnsupportedURL.
WaitReturn ==
    /\ UNCHANGED auxVars
    /\ pc = "wait"
    /\ WaitReturns(wg)
    /\ images' = [f \in DOMAIN imgPointers |-> ReturnedReader(imgPointers[f])]
    /\ tree' = [lang |-> GetLang(doc),
                head |-> IF FindFirstAtomNode(doc, "head") # 0
                            /\ out[FindFirstAtomNode(doc, "head")] # NilNode
                         THEN FindFirstAtomNode(doc, "head") ELSE 0,
                metas |-> ProvenanceMetas,
                body |-> root,
                article |-> phase = "article"]
    /\ returned' = "ok"
    /\ IF root = 0
       THEN /\ pc' = "done"
            /\ err' = errUnsupportedURL
            /\ ctx' = "cancelled"
       ELSE /\ pc' = "epub"
            /\ UNCHANGED <<err, ctx>>
    /\ UNCHANGED <<inputVars, cancelledAt, walkVars, wg, workers, epubVars>>

\* getEpub, lines 301-313: the call of Epub and the return.  Epub writes its
\* entries to Dest, the images in an order Go does not specify; or a write
\* fails, Epub returns the error and getEpub drops the buffer.
Epub ==
    /\ UNCHANGED auxVars
    /\ pc = "epub"
    /\ epubCalled' = TRUE
    /\ \/ \E order \in RangeOrders(DOMAIN images) :
            /\ zip' = EpubWrites(EpubSteps, images, order)
            /\ imageContentTypes' = ImageContentTypes(images)
            /\ err' = err
       \/ /\ err' = "unable to create epub"
          /\ UNCHANGED <<zip, imageContentTypes>>
    /\ pc' = "done"
    /\ ctx' = "cancelled"
    /\ UNCHANGED <<inputVars, cancelledAt, walkVars, wg, workers, returned, tree, images>>

Next ==
    \/ Cancel
    \/ GetHTML
    \/ Descend
    \/ Download
    \/ WaitReturn
    \/ Epub

Spec == Init /\ [][Next]_vars

\* ------------------------------------------------- the naming of one file

\* The largest value of *imgCounter before an image is named.
MaxCounter == 1000

\* Source URLs whose paths end in a name with an extension, in a name
\* without one, and in a name ending with a dot.
NameURLs ==
    {FullA, FullB,
     URL("https", "cdn.net", TRUE, <<"img", "photo">>),
     URL("https", "cdn.net", TRUE, <<"x.">>)}

InitFilename ==
    /\ NoRequest
    /\ first = <<>>
    /\ attempts = <<>>
    /\ sent = <<>>
    /\ gets = <<>>
    /\ call \in {[op |-> "filename", arg |-> <<c, u, g>>, res |-> <<>>] :
                    c \in 0..MaxCounter, u \in NameURLs, g \in BOOLEAN}

\* readableRecursive, lines 637-643, for an image not yet in imgMapping:
\* the counter is incremented and the file named.
NameFile ==
    /\ call.op = "filename"
    /\ call.res = <<>>
    /\ call' = [call EXCEPT !.res =
                   LocalFilename(CounterAfter(call.arg[1], FALSE),
                                 LocalExt(call.arg[2], call.arg[3]))]
    /\ UNCHANGED <<mainVars, first, attempts, sent, gets>>

NextFilename == NameFile

SpecFilename == InitFilename /\ [][NextFilename]_vars

\* ------------------------------------------------------------------ claims

\* Epub returned an id and a nil error: the archive is a produced EPUB.
EpubProduced == pc = "done" /\ returned = "ok" /\ err = ""

\* The names of the entries of the archive, in order.
ZipNames == [i \in DOMAIN zip |-> zip[i].Name]

\* The entry names of the images of the returned manifest.
ImageEntryNames == {<<"content", "/">> \o f : f \in DOMAIN images}

\* C1: every EPUB that Epub produces has `mimetype` as its first ZIP entry,
\* written with the Store method, with the payload application/epub+zip; no
\* entry is ever written before it.
C1_MimetypeFirstStored ==
    /\ EpubProduced => zip # <<>>
    /\ zip # <<>> =>
          zip[1] = [Name |-> <<"mimetype">>, Method |-> "Store",
                    Body |-> <<"application/epub+zip">>]

C1_Witness == EpubProduced /\ Len(zip) = 7

\* C2: on every successful Epub call the entries are, in order: mimetype,
\* META-INF/container.xml, content/article.xhtml, one entry per image of the
\* manifest, content/nav.xhtml, and content/content.opf last.
C2_EntryOrder ==
    EpubProduced =>
        LET n == Len(zip)
            names == ZipNames
            imageNames == ImageEntryNames
        IN  /\ n = Cardinality(DOMAIN images) + 5
            /\ names[1] = <<"mimetype">>
            /\ names[2] = <<"META-INF", "/", "container.xml">>
            /\ names[3] = <<"content", "/", "article.xhtml">>
            /\ \A i \in 4..(n - 2) : names[i] \in imageNames
            /\ \A e \in imageNames :
                   Cardinality({i \in 4..(n - 2) : names[i] = e}) = 1
            /\ names[n - 1] = <<"content", "/", "nav.xhtml">>
            /\ names[n] = <<"content", "/", "content.opf">>

C2_Witness == EpubProduced /\ Cardinality(DOMAIN images) = 2

\* The element nodes readableRecursive built for the tree Readable returned,
\* and the <html> root Readable builds around them.  (The provenance <meta>
\* elements that Readable appends to <head> are listed apart, in tree.metas.)
DistilledElements ==
    {out[i] : i \in {j \in DOMAIN out : out[j].Type = "element"}}
        \cup {OutElem("html", IF tree.lang = "" THEN <<>>
                              ELSE <<Attr("lang", Str(tree.lang))>>)}

\* C3: every element node of the readable tree has a tag of the element
\* whitelist and carries only attributes of the allow-set of its tag.
C3_WhitelistedTree ==
    returned = "ok" =>
        \A e \in DistilledElements :
            /\ e.Data \in DOMAIN atoms
            /\ \A k \in DOMAIN e.Attr : e.Attr[k].Key \in atoms[e.Data]

C3_FailingInput ==
    /\ returned = "ok"
    /\ \E i \in DOMAIN doc : doc[i].Data = "img" /\ out[i].Type = "element"
                             /\ \E k \in DOMAIN out[i].Attr : out[i].Attr[k].Key = "data-src"

\* The download goroutines that have not reached wg.Done.
Running == {f \in DOMAIN workers : workers[f].st = "running"}

\* C4 as claimed: on every return of Readable, successful or not, every image
\* worker it started has completed.
C4_EveryReturnAfterWorkers == returned # "no" => Running = {}

\* C4 as amended: on every successful return of Readable every image worker
\* it started has completed.
C4_SuccessfulReturnAfterWorkers == returned = "ok" => Running = {}

C4_Witness ==
    /\ returned = "ok"
    /\ pc = "epub"
    /\ Cardinality(DOMAIN workers) = 2
    /\ \E f \in DOMAIN workers : workers[f].st = "transport"

\* Epub has been called.
EpubInvoked == epubCalled

\* C5 as claimed: when the request context is cancelled at any point before
\* Epub is called, Epub is never invoked and getEpub returns an error.
C5_CancelledNeverPackaged ==
    cancelledAt # "never" => ~EpubInvoked /\ (pc = "done" => err # "")

\* C5 as amended: when the request context is cancelled while GetHTML runs or
\* while the distiller still has a node to descend into, the distiller
\* aborts, Epub is never invoked and getEpub returns an error.
C5_CancelledBeforeLastDescent ==
    cancelledAt \in {"GetHTML", "walk"} =>
        /\ ~EpubInvoked
        /\ returned # "ok"
        /\ pc \in {"GetHTML", "walk", "done"}
        /\ pc = "done" => err \in {"unable to get html", "context canceled"}

C5_Witness ==
    /\ cancelledAt = "walk"
    /\ pc = "done"
    /\ err = "context canceled"
    /\ workers # <<>>

\* The absolute string form of the source chosen for image element i.
AbsoluteSrc(i) ==
    LET u == ResolveReference(BaseURL, ImageSrcURL(EffectiveNode(doc, i)))
    IN  <<u.scheme, u.host>> \o u.segs

\* The local filename in the src attribute of the <img> returned for node i.
LocalSrc(i) ==
    LET ks == {k \in DOMAIN out[i].Attr : out[i].Attr[k].Key = "src"}
    IN  out[i].Attr[CHOOSE k \in ks : TRUE].Val.f

\* C6: two image elements get the same local filename if and only if their
\* chosen URLs have the same absolute string form, and the manifest holds
\* exactly one entry per distinct absolute image URL.  (abs and loc are bound
\* over one-element sets, which computes them once for a state.)
C6_FilenamePerURL ==
    \A abs \in {[k \in DOMAIN met |-> AbsoluteSrc(met[k])]} :
    \A loc \in {[k \in DOMAIN met |-> LocalSrc(met[k])]} :
        /\ \A a, b \in DOMAIN met : (loc[a] = loc[b]) <=> (abs[a] = abs[b])
        /\ DOMAIN imgPointers = Range(loc)
        /\ Cardinality(DOMAIN imgPointers) = Cardinality(Range(abs))
        /\ returned = "ok" => DOMAIN images = DOMAIN imgPointers

C6_Witness ==
    /\ returned = "ok"
    /\ \E a, b \in Range(met) :
        /\ a # b
        /\ doc[a].Attr # doc[b].Attr
        /\ AbsoluteSrc(a) = AbsoluteSrc(b)
        /\ LocalSrc(a) = LocalSrc(b)

RECURSIVE FirstOccurrences(_)
\* The distinct elements of a sequence, in the order of their first occurrence.
FirstOccurrences(q) ==
    IF q = <<>> THEN <<>>
    ELSE LET front == SubSeq(q, 1, Len(q) - 1)
             rest == FirstOccurrences(front)
         IN  IF q[Len(q)] \in Range(front) THEN rest ELSE Append(rest, q[Len(q)])

RECURSIVE ParseDigits(_)
\* The number a sequence of decimal digit characters spells.
ParseDigits(ds) ==
    IF ds = <<>> THEN 0
    ELSE 10 * ParseDigits(SubSeq(ds, 1, Len(ds) - 1))
         + (CHOOSE v \in 0..9 : <<"0", "1", "2", "3", "4", "5", "6", "7", "8", "9">>[v + 1]
                                    = ds[Len(ds)])

\* The number in a local filename images/NNN.ext.
FileNumber(f) == ParseDigits(SubSeq(f, 3, Len(f) - 1))

\* The distinct absolute image URLs in the order the walk met them.
Discovered == FirstOccurrences([k \in DOMAIN met |-> AbsoluteSrc(met[k])])

\* C7: the k-th distinct image URL met by the walk gets number k, in every
\* state, whatever downloads have started or completed: every image element
\* whose URL is the k-th distinct one refers to the file numbered k.
C7_DiscoveryOrder ==
    \A abs \in {[j \in DOMAIN met |-> AbsoluteSrc(met[j])]} :
    \A disc \in {FirstOccurrences(abs)} :
        \A k \in DOMAIN disc : \A j \in DOMAIN met :
            abs[j] = disc[k] => FileNumber(LocalSrc(met[j])) = k

\* The second file's download has completed while the first's still runs.
C7_Witness ==
    /\ Len(Discovered) = 2
    /\ \E f, g \in DOMAIN workers :
        /\ FileNumber(f) = 1 /\ workers[f].st = "running"
        /\ FileNumber(g) = 2 /\ workers[g].st = "copied"

\* The nodes a walk from r calls readableRecursive on: those of the subtree
\* of r all of whose ancestors below r are elements it recurses into.
Visited(d, r) ==
    LET RECURSIVE Reached(_)
        Reached(i) == \/ i = r
                      \/ /\ d[i].parent >= r
                         /\ NodeCase(d, d[i].parent) = "descend"
                         /\ Reached(d[i].parent)
    IN  {i \in Subtree(d, r) : Reached(i)}

\* Whether the walk from r returns a node: some visited node is kept on its
\* own account (a text, an image, an element with attributes or of the
\* keep-empty set).
WalkKeeps(d, r) ==
    \E i \in Visited(d, r) :
        \/ NodeCase(d, i) \in {"text", "image"}
        \/ /\ NodeCase(d, i) = "descend"
           /\ \/ \E k \in DOMAIN d[i].Attr : d[i].Attr[k].Key \in atoms[NewAtom(d[i])]
              \/ NewAtom(d[i]) \in keepEmptyAtoms

\* The image elements Readable keeps for document d, by the document alone:
\* those visited under <head>, and under the <article> when it is chosen and
\* yields a node, else under <body>.
ExpectedImageElems(d, minNodes) ==
    LET h == FindFirstAtomNode(d, "head")
        a == FindFirstAtomNode(d, "article")
        b == FindFirstAtomNode(d, "body")
        useArticle == /\ a # 0
                      /\ (minNodes > 0 => countRecursive(d, a, minNodes).hasMin)
                      /\ WalkKeeps(d, a)
        nodes == (IF h = 0 THEN {} ELSE Visited(d, h))
                    \cup (IF useArticle THEN Visited(d, a)
                          ELSE IF b = 0 THEN {} ELSE Visited(d, b))
    IN  {i \in nodes : NodeCase(d, i) = "image"}

RECURSIVE SortedSeq(_)
\* The elements of a set of numbers in increasing order.
SortedSeq(S) ==
    IF S = {} THEN <<>>
    ELSE LET m == CHOOSE x \in S : \A y \in S : x <= y
         IN  <<m>> \o SortedSeq(S \ {m})

\* The distinct absolute image URLs of the document, in document order.
ExpectedURLs ==
    LET order == SortedSeq(ExpectedImageElems(doc, minArticleNodes))
    IN  FirstOccurrences([k \in DOMAIN order |->
            ResolveReference(BaseURL, ImageSrcURL(EffectiveNode(doc, order[k])))])

\* The entry name of the k-th image of a document whose distinct image URLs
\* are urls.
ExpectedImageName(urls, k) ==
    <<"content", "/", "images", "/">> \o Sprintf03(k)
        \o <<IF gray THEN ".jpg" ELSE PathExt(urls[k])>>

\* The entry names of section 6 of the specification: the image entries in
\* the order of their numbers.
LayoutNames(urls) ==
    <<(<<"mimetype">>), <<"META-INF", "/", "container.xml">>,
      <<"content", "/", "article.xhtml">>>>
        \o [k \in DOMAIN urls |-> ExpectedImageName(urls, k)]
        \o <<(<<"content", "/", "nav.xhtml">>), <<"content", "/", "content.opf">>>>

EntryNumber(e) == ParseDigits(SubSeq(e, 5, Len(e) - 1))

GetFailures == {"transport", "status", "cancelled"}

GrayFailures == {"decodeFailed", "encodeFailed"}

\* C10: when grayscale is requested and decoding or JPEG encoding fails for
\* an image, the slot and the manifest entry of that image hold the
\* downloaded bytes, all of them and unchanged.
C10_GrayFallbackOriginal ==
    \A f \in DOMAIN workers :
        workers[f].st \in GrayFailures =>
            /\ gray
            /\ imgPointers[f].bytes = Content(workers[f].url)
            /\ returned = "ok" => images[f].bytes = Content(workers[f].url)

C10_Witness ==
    /\ returned = "ok"
    /\ \E f, g \in DOMAIN workers :
        /\ workers[f].st = "decodeFailed"
        /\ workers[g].st = "encodeFailed"
        /\ Len(images[f].bytes) = 4

\* Distillation has ended: Readable returned to getEpub.
Distilled == returned \in {"ok", "error"}

\* C11: for a document that has a <body>, and absent cancellation,
\* distillation ends with a readable tree whose body is not nil or with the
\* UnsupportedURL error, and in no other way.
C11_BodyOrUnsupported ==
    (Distilled /\ cancelledAt = "never" /\ FindFirstAtomNode(doc, "body") # 0) =>
        \/ returned = "ok" /\ tree.body # 0
        \/ err = errUnsupportedURL

\* A document whose <body> holds nothing the distiller keeps: Readable ends
\* with the error "no body tag found".
C11_FailingInput ==
    /\ Distilled
    /\ cancelledAt = "never"
    /\ FindFirstAtomNode(doc, "body") # 0
    /\ returned = "error"
    /\ err = "no body tag found"

\* A file has been named.
Named == call.op = "filename" /\ call.res # <<>>

\* The name below the imagesDir prefix, and its parts.
BelowDir(f) == SubSeq(f, 3, Len(f))
NameDigits(f) == SubSeq(f, 3, Len(f) - 1)
NameExt(f) == f[Len(f)]

DigitChars == {"0", "1", "2", "3", "4", "5", "6", "7", "8", "9"}

\* Whether an extension matches \.[^.]+
MatchesExtRE(ext) == ext \in {".png", ".jpg", ".gif"}

\* Whether a name matches ^\d{3}\.[^.]+$
MatchesNameRE(name) ==
    /\ Len(name) = 4
    /\ \A k \in 1..3 : name[k] \in DigitChars
    /\ MatchesExtRE(name[4])

\* C12 as claimed: every local filename matches ^\d{3}\.[^.]+$ below its
\* imagesDir prefix, and its extension is .jpg if and only if grayscale is
\* enabled.
C12_ThreeDigitsDotExt ==
    Named =>
        /\ SubSeq(call.res, 1, 2) = <<"images", "/">>
        /\ MatchesNameRE(BelowDir(call.res))
        /\ (NameExt(call.res) = ".jpg") <=> call.arg[3]

\* C12 as amended: a local filename is, below its imagesDir prefix, the
\* number of the image in decimal, padded with zeros to three digits (and
\* longer from 1000 on), followed by the extension: .jpg whenever grayscale
\* is enabled, else the extension of the path of the source URL, which may
\* be .jpg too, or empty, or a lone dot.  The name matches ^\d{3}\.[^.]+$
\* exactly when the number is below 1000 and that extension is a dot
\* followed by something.
C12_PaddedNumberAndExt ==
    Named =>
        \A f \in {call.res} : \A n \in {call.arg[1] + 1} :
            /\ SubSeq(f, 1, 2) = <<"images", "/">>
            /\ \A k \in DOMAIN NameDigits(f) : NameDigits(f)[k] \in DigitChars
            /\ ParseDigits(NameDigits(f)) = n
            /\ Len(NameDigits(f)) = IF n < 1000 THEN 3 ELSE 4
            /\ call.arg[3] => NameExt(f) = ".jpg"
            /\ ~call.arg[3] =>
                   NameExt(f) = (IF call.arg[2].segs[Len(call.arg[2].segs)] = "a.png" THEN ".png"
                                 ELSE IF call.arg[2].segs[Len(call.arg[2].segs)] = "b.jpg" THEN ".jpg"
                                 ELSE IF call.arg[2].segs[Len(call.arg[2].segs)] = "x." THEN "."
                                 ELSE "")
            /\ MatchesNameRE(BelowDir(f)) <=> (n < 1000 /\ MatchesExtRE(NameExt(f)))

\* The seventh file, named without grayscale from a URL that ends in .jpg.
C12_Witness ==
    /\ Named
    /\ ~call.arg[3]
    /\ call.arg[2] = FullB
    /\ call.res = <<"images", "/", "0", "0", "7", ".jpg">>

\* ------------------------------------------- distilling a distilled tree

\* The path segment that a local file name is when the rendered tree is
\* parsed again: the digits and the extension as one name.
SegOfFile(f) ==
    LET names == <<(<<"001", "001.png", "001.jpg", "001.gif">>),
                   <<"002", "002.png", "002.jpg", "002.gif">>,
                   <<"003", "003.png", "003.jpg", "003.gif">>,
                   <<"004", "004.png", "004.jpg", "004.gif">>>>
        ext == f[Len(f)]
        col == CASE ext = ".png" -> 2 [] ext = ".jpg" -> 3 [] ext = ".gif" -> 4 [] OTHER -> 1
    IN  names[FileNumber(f)][col]

\* An attribute value of the returned tree as html.Parse reads it back: a
\* local file name is a relative URL.
RenderVal(v) ==
    IF v.kind = "file" THEN UrlVal(URL("", "", FALSE, <<imagesDir, SegOfFile(v.f)>>)) ELSE v

\* The nodes readableRecursive returned in the subtree of r, in document
\* order.
KeptIn(r) == IF r = 0 THEN <<>> ELSE SortedSeq({i \in Subtree(doc, r) : out[i] # NilNode})

\* The nodes of the tree Readable returned, in document order, each with an
\* id and the id of its parent: a node copied from the source has the index
\* of its source, <html> is -1, a <head> and a <body> that Readable makes are
\* -2 and -3, the provenance <meta> elements -4, -5 and -6.
TreeEntries ==
    LET h == tree.head
        headId == IF h = 0 THEN -2 ELSE h
        copied(r, above) ==
            [k \in DOMAIN KeptIn(r) |->
                [id |-> KeptIn(r)[k],
                 pid |-> IF KeptIn(r)[k] = r THEN above ELSE doc[KeptIn(r)[k]].parent,
                 node |-> out[KeptIn(r)[k]]]]
    IN  <<[id |-> -1, pid |-> 0,
           node |-> OutElem("html", IF tree.lang = "" THEN <<>>
                                    ELSE <<Attr(langKey, Str(tree.lang))>>)]>>
        \o (IF h = 0 THEN <<[id |-> -2, pid |-> -1, node |-> OutElem("head", <<>>)]>>
            ELSE copied(h, -1))
        \o [k \in DOMAIN tree.metas |-> [id |-> -3 - k, pid |-> headId, node |-> tree.metas[k]]]
        \o (IF tree.article
            THEN <<[id |-> -3, pid |-> -1, node |-> OutElem("body", <<>>)]>>
                     \o copied(tree.body, -3)
            ELSE copied(tree.body, -1))

\* The tree Readable returned as the document that html.Parse gives for its
\* rendering.
DocOfEntries(es) ==
    [k \in DOMAIN es |->
        [Type |-> es[k].node.Type,
         Data |-> es[k].node.Data,
         Attr |-> [a \in DOMAIN es[k].node.Attr |->
                      Attr(es[k].node.Attr[a].Key, RenderVal(es[k].node.Attr[a].Val))],
         parent |-> IF es[k].pid = 0 THEN 0 ELSE CHOOSE j \in DOMAIN es : es[j].id = es[k].pid,
         inner |-> <<>>]]

TreeDoc == DocOfEntries(TreeEntries)

\* Readable is called again, with the same arguments, on the tree it has
\* just returned.
Redistill ==
    /\ pc = "epub"
    /\ first = <<>>
    /\ first' = TreeDoc
    /\ doc' = TreeDoc
    /\ LET ctl == HeadStart(doc', minArticleNodes)
       IN  /\ pc' = ctl.pc
           /\ phase' = ctl.phase
           /\ root' = ctl.pos
           /\ pos' = ctl.pos
    /\ out' = [i \in DOMAIN doc' |-> NilNode]
    /\ imgMapping' = <<>>
    /\ imgCounter' = 0
    /\ imgPointers' = <<>>
    /\ wg' = 0
    /\ workers' = <<>>
    /\ met' = <<>>
    /\ returned' = "no"
    /\ tree' = NoTree
    /\ images' = <<>>
    /\ UNCHANGED <<gray, minArticleNodes, ctx, cancelledAt, err, epubVars, call,
                   attempts, sent, gets>>

NextTwice ==
    \/ GetHTML
    \/ Descend
    \/ Download
    \/ WaitReturn
    \/ Redistill

SpecTwice == Init /\ [][NextTwice]_vars

\* Readable has returned the tree of a second distillation.
DistilledTwice == first # <<>> /\ returned = "ok"

\* C13: distilling an already distilled tree gives the same tree, elements
\* and attributes included (the provenance <meta> elements are the same
\* three in both).
C13_FixedPoint == DistilledTwice => TreeDoc = first

\* <picture><source type srcset></picture>: the first distillation returns
\* <img type src>, the second one <img src>.
C13_FailingInput ==
    /\ DistilledTwice
    /\ \E i \in DOMAIN first :
        /\ first[i].Data = "img"
        /\ \E a \in DOMAIN first[i].Attr : first[i].Attr[a].Key = "type"
    /\ Len(TreeDoc) = Len(first)
    /\ TreeDoc # first

\* ------------------------------------------------- the package document

\* The package document of the produced EPUB: what Epub wrote as
\* content/content.opf.
PackageDocument ==
    zip[CHOOSE i \in DOMAIN zip : zip[i].Name = <<"content", "/", "content.opf">>].Body[1]

\* The entries written under content/, the package document aside.
ContentFiles ==
    {i \in DOMAIN zip :
        /\ Len(zip[i].Name) > 2
        /\ SubSeq(zip[i].Name, 1, 2) = <<"content", "/">>
        /\ zip[i].Name # <<"content", "/", "content.opf">>}

\* C19: in every produced EPUB the manifest of the package document has
\* exactly one item for each file written under content/ (the navigation
\* document, the article and every image) and no other item, each item has
\* the media type of its file (application/xhtml+xml for the two documents,
\* the type detected from the written bytes for an image), and the spine
\* references article.xhtml and nothing else.
C19_ManifestMatchesContent ==
    EpubProduced =>
        \A opf \in {PackageDocument} : \A files \in {ContentFiles} :
            /\ \A i \in files :
                   Cardinality({k \in DOMAIN opf.manifest :
                       <<"content", "/">> \o opf.manifest[k].href = zip[i].Name}) = 1
            /\ \A k \in DOMAIN opf.manifest :
                   \E i \in files :
                       /\ zip[i].Name = <<"content", "/">> \o opf.manifest[k].href
                       /\ opf.manifest[k].mediaType =
                              IF opf.manifest[k].href \in {<<"nav.xhtml">>, <<"article.xhtml">>}
                              THEN "application/xhtml+xml"
                              ELSE DetectContentType(zip[i].Body)
            /\ opf.spine = <<(<<"article.xhtml">>)>>

\* An EPUB with two images of different media types.
C19_Witness ==
    /\ EpubProduced
    /\ Len(PackageDocument.manifest) = 4
    /\ PackageDocument.manifest[3].mediaType # PackageDocument.manifest[4].mediaType

\* ----------------------------------------------- the Telegram URL handler

archivePrefix == <<"https://", "archive.is", "/">>
archiveNewest == archivePrefix \o <<"newest/">>

\* A test for the prefix itself instead of a string that starts with it.
HasPrefixWhole(s, prefix) == s = prefix

\* strings.HasPrefix on strings given by their parts.
HasPrefix(s, prefix) == Len(s) >= Len(prefix) /\ SubSeq(s, 1, Len(prefix)) = prefix

\* The URLs firstURLInMessage finds: a plain one, two of archive.is, one of
\* archive.is over http, one of a host whose name starts like archive.is, and
\* none.
MessageURLs ==
    {<<"https://", "example.com", "/", "a">>,
     <<"https://", "archive.is", "/", "abc">>,
     <<"https://", "archive.is", "/", "newest/", "https://", "example.com", "/", "a">>,
     <<"http://", "archive.is", "/", "abc">>,
     <<"https://", "archive.is", "le.com/x">>,
     <<>>}

\* An error is the chain of errors Unwrap walks, the outermost first; nil is
\* the empty chain.  The errors getEpub returns: GetHTML failed (%v, nothing
\* wrapped), Readable failed, Readable returned no node, Epub failed.
GetEpubErrors ==
    {<<"unable to get html for">>,
     <<"unable to generate readable html", "no body tag found">>,
     <<"%w: %q", errUnsupportedURL>>,
     <<"unable to create epub", "zip">>}

RECURSIVE ErrorsIs(_, _)
\* errors.Is(e, target).
ErrorsIs(e, target) ==
    IF e = <<>> THEN FALSE ELSE Head(e) = target \/ ErrorsIs(Tail(e), target)

AccountTypeRM == "AccountTypeRM"
AccountTypeKindle == "AccountTypeKindle"
AccountTypeDropbox == "AccountTypeDropbox"
\* chat.Type: the three account types, the zero value and an unknown value;
\* "nil" for a chat GetChat does not find.
ChatTypes == {AccountTypeRM, AccountTypeKindle, AccountTypeDropbox, "0", "unknown"}

\* A handler that always answers on the response stream.
ReplyFuncAlwaysResponse(isFirst) == "replyMessage"

\* handleURL, lines 176-179: the reply function of an attempt.
ReplyFunc(isFirst) == IF isFirst THEN "replyMessage" ELSE "sendReplyMessage"

\* replyMessage encodes the reply on w (a nil w panics); sendReplyMessage
\* posts it to the bot API and ignores w.
Channel(fn, w) ==
    IF fn = "sendReplyMessage" THEN "PostRequestJSON"
    ELSE IF w = "nil" THEN "panic" ELSE "response"

\* The reply attempt i makes with the function fn.
Reply(fn, i, w, msg) == [by |-> i, channel |-> Channel(fn, w), msg |-> msg]

\* A call of handleURL: its arguments, where it stands, the error of getEpub
\* and the attempt that started it (0 for urlHandler).
Attempt(url, isFirst, w, c, by, type) ==
    [url |-> url, first |-> isFirst, w |-> w, ctx |-> c, by |-> by, chat |-> type,
     pc |-> "getEpub", err |-> <<>>, msg |-> <<>>]

InitBot ==
    /\ NoRequest
    /\ call = NoCall
    /\ first = <<>>
    /\ gets = <<>>
    /\ attempts = <<>>
    /\ sent = <<>>

\* urlHandler: no chat and no URL are answered at once; otherwise handleURL
\* is called as the first attempt, with the response writer.
urlHandler ==
    /\ attempts = <<>>
    /\ sent = <<>>
    /\ \E type \in ChatTypes \cup {"nil"}, url \in MessageURLs :
          IF type = "nil"
          THEN /\ sent' = <<Reply("replyMessage", 0, "w", <<"notStartedMsg">>)>>
               /\ UNCHANGED attempts
          ELSE IF url = <<>>
          THEN /\ sent' = <<Reply("replyMessage", 0, "w", <<"noURLmsg">>)>>
               /\ UNCHANGED attempts
          ELSE /\ attempts' = <<Attempt(url, TRUE, "w", "request", 0, type)>>
               /\ UNCHANGED sent
    /\ UNCHANGED <<mainVars, call, first, gets>>

\* handleURL, lines 176-222, from the call of getEpub to the go statement
\* or to the call of the upload: getEpub returns e.
handleURL(i) ==
    /\ attempts[i].pc = "getEpub"
    /\ \E e \in GetEpubErrors \cup {<<>>} :
        LET a == attempts[i]
            reply == ReplyFunc(a.first)
        IN  IF e # <<>>
            THEN IF ErrorsIs(e, errUnsupportedURL)
                 THEN /\ sent' = Append(sent, Reply(reply, i, a.w, <<"unsupportedURLmsg", a.url>>))
                      /\ attempts' = [attempts EXCEPT ![i].pc = "done", ![i].err = e]
                 ELSE IF a.first /\ ~HasPrefix(a.url, archivePrefix)
                 THEN /\ attempts' =
                            Append([attempts EXCEPT ![i].pc = "reply", ![i].err = e,
                                       ![i].msg = <<"failedEpubMsg", a.url, "failedEpubRetry">>],
                                   Attempt(archiveNewest \o a.url, FALSE, "nil",
                                           "WithoutCancel", i, a.chat))
                      /\ UNCHANGED sent
                 ELSE /\ attempts' = [attempts EXCEPT ![i].pc = "reply", ![i].err = e,
                                         ![i].msg = <<"failedEpubMsg", a.url>>]
                      /\ UNCHANGED sent
            ELSE IF a.chat = "unknown"
                 THEN /\ sent' = Append(sent, Reply(reply, i, a.w, <<"notStartedMsg">>))
                      /\ attempts' = [attempts EXCEPT ![i].pc = "done"]
                 ELSE IF a.chat \in {"0", AccountTypeRM}
                 THEN /\ sent' = Append(sent, Reply("sendReplyMessage", i, "nil", <<"warnRM">>))
                      /\ attempts' = [attempts EXCEPT ![i].pc = "upload"]
                 ELSE /\ attempts' = [attempts EXCEPT ![i].pc = "upload"]
                      /\ UNCHANGED sent
    /\ UNCHANGED <<mainVars, call, first, gets>>

\* handleURL, line 199: the reply after the go statement, which the retry
\* may overtake.
replyFailed(i) ==
    /\ attempts[i].pc = "reply"
    /\ sent' = Append(sent, Reply(ReplyFunc(attempts[i].first), i, attempts[i].w,
                                  attempts[i].msg))
    /\ attempts' = [attempts EXCEPT ![i].pc = "done"]
    /\ UNCHANGED <<mainVars, call, first, gets>>

\* What uploadRM, uploadDropbox and sendKindleEmail reply: the upload
\* succeeded or failed, or the Dropbox authorisation failed.
UploadReplies(type) ==
    CASE type \in {"0", AccountTypeRM} -> {"successUploadRM", "failedUploadRM"}
      [] type = AccountTypeDropbox ->
            {"successUploadDropbox", "failedUploadDropbox", "dropboxFailure"}
      [] type = AccountTypeKindle -> {"successEmail", "failedEmail"}

\* uploadRM, uploadDropbox, sendKindleEmail: each replies once, with the
\* reply function handleURL gave it.
upload(i) ==
    /\ attempts[i].pc = "upload"
    /\ \E text \in UploadReplies(attempts[i].chat) :
          sent' = Append(sent, Reply(ReplyFunc(attempts[i].first), i, attempts[i].w,
                                     <<text, attempts[i].url>>))
    /\ attempts' = [attempts EXCEPT ![i].pc = "done"]
    /\ UNCHANGED <<mainVars, call, first, gets>>

NextBot ==
    \/ urlHandler
    \/ \E i \in DOMAIN attempts : handleURL(i)
    \/ \E i \in DOMAIN attempts : replyFailed(i)
    \/ \E i \in DOMAIN attempts : upload(i)

SpecBot == InitBot /\ [][NextBot]_vars

\* The attempts attempt i started.
Retries(i) == {j \in DOMAIN attempts : attempts[j].by = i}

\* C14: handleURL starts a detached retry of https://archive.is/newest/<url>
\* exactly when a first attempt fails with an error that is not
\* UnsupportedURL and its URL does not begin with https://archive.is/; a
\* retry starts no further retry, so a URL is retried at most once.
C14_RetryExactlyOnce ==
    /\ Len(attempts) <= 2
    /\ \A i \in DOMAIN attempts :
          LET a == attempts[i]
          IN  /\ a.pc = "getEpub" => Retries(i) = {}
              /\ a.pc # "getEpub" =>
                    /\ Retries(i) # {} <=>
                          /\ a.first
                          /\ a.err # <<>>
                          /\ "unsupported URL" \notin Range(a.err)
                          /\ ~(/\ Len(a.url) >= 3
                               /\ SubSeq(a.url, 1, 3) = <<"https://", "archive.is", "/">>)
                    /\ Cardinality(Retries(i)) <= 1
                    /\ \A j \in Retries(i) :
                          /\ attempts[j].url =
                                 <<"https://", "archive.is", "/", "newest/">> \o a.url
                          /\ ~attempts[j].first
                          /\ attempts[j].ctx = "WithoutCancel"

\* A retry that failed in its turn, with an error that is not UnsupportedURL.
C14_Witness ==
    /\ Len(attempts) = 2
    /\ attempts[2].pc = "done"
    /\ attempts[2].err = <<"unable to get html for">>
    /\ attempts[1].pc = "done"

\* C15: every reply of the detached retry, whether it succeeded or failed,
\* goes through the bot API (sendReplyMessage); the retry has no response
\* writer and nothing of it is written on the response of the webhook.
C15_RetryRepliesOutOfBand ==
    /\ \A i \in DOMAIN attempts : ~attempts[i].first => attempts[i].w = "nil"
    /\ \A k \in DOMAIN sent :
          (sent[k].by # 0 /\ ~attempts[sent[k].by].first) =>
              sent[k].channel = "PostRequestJSON"
    /\ \A i \in DOMAIN attempts :
          (~attempts[i].first /\ attempts[i].pc = "done") =>
              \E k \in DOMAIN sent : sent[k].by = i

\* A retry that succeeded and has replied, before the first attempt replied.
C15_Witness ==
    /\ Len(attempts) = 2
    /\ attempts[2].pc = "done"
    /\ attempts[1].pc = "reply"
    /\ \E k \in DOMAIN sent :
          /\ sent[k].by = 2
          /\ sent[k].msg[1] = "successEmail"
          /\ sent[k].channel = "PostRequestJSON"

\* ------------------------------------------------------ the shared client

\* How many calls of get the model follows.
MaxGets == 2

\* len(via) >= 10 in CheckRedirect.
MaxRedirects == 10

StatusOK == 200

\* The status codes of final responses: the expected one, a 2xx that is
\* not 200, and one that is not 2xx.
Statuses == {200, 204, 404}

\* What client.Do meets after a request: a redirect or a final response with
\* its status.  (The only error of client.Do the model follows is the one of
\* CheckRedirect.)
Responses ==
    {[kind |-> "redirect", code |-> 302]}
        \cup {[kind |-> "final", code |-> s] : s \in Statuses}

defaultUserAgent == "url2epub/K_REVISION"

\* An error of get or of client.Do; code is the status in the message.
Error(msg, code) == [msg |-> msg, code |-> code]
NilError == Error("", 0)

\* The requests getEpub serves: the URL and the ua of its caller, empty
\* when the caller has none.
Requests ==
    {[url |-> BaseURL, ua |-> ""],
     [url |-> URL("https", "other.org", TRUE, <<"p">>), ua |-> "Mozilla/5.0"]}

\* The Location of the redirect a server answers a request of u with.
Location(u) == [u EXCEPT !.segs = Append(@, "moved")]

\* A CheckRedirect that never refuses.
CheckRedirectNoCap(req, via, lastURL) == [err |-> NilError, lastURL |-> req]

\* A CheckRedirect that leaves the last URL alone.
CheckRedirectNoStore(req, via, lastURL) ==
    IF Len(via) >= MaxRedirects
    THEN [err |-> Error("stopped after 10 redirects", 0), lastURL |-> lastURL]
    ELSE [err |-> NilError, lastURL |-> lastURL]

\* client.CheckRedirect: req is the request about to be made, via the
\* requests made so far, lastURL the cell the context of req points to; the
\* result is the error and the cell afterwards.
CheckRedirect(req, via, lastURL) ==
    IF Len(via) >= MaxRedirects
    THEN [err |-> Error("stopped after 10 redirects", 0), lastURL |-> lastURL]
    ELSE [err |-> NilError, lastURL |-> req]

\* A get that takes every 2xx for a success.
UnexpectedStatusNon2xx(code) == code \notin 200..299

\* get, line 233: resp.StatusCode != http.StatusOK.
UnexpectedStatus(code) == code # StatusOK

\* getEpub, lines 234-236: the default of ua.
UserAgentOrDefault(ua) == IF ua = "" THEN defaultUserAgent ELSE ua

\* getEpub, lines 277-284: the ReadableArgs it builds; UserAgent is not
\* among the fields it sets and keeps the zero value.
ReadableArgs(baseURL, ua) ==
    [BaseURL |-> baseURL, UserAgent |-> "", ImagesDir |-> imagesDir]

\* get, lines 216-227: the request, the cell of the last URL and the
\* header; `by` is the caller and `request` the article fetch of the same
\* call of getEpub.
NewGet(by, request, src, ua) ==
    [by |-> by, request |-> request, src |-> src, ua |-> ua,
     header |-> IF ua # "" THEN ua ELSE "",
     req |-> src, via |-> <<>>, lastURL |-> src, redirects |-> 0,
     pc |-> "Do", status |-> 0, body |-> "none",
     ret |-> [body |-> "nil", url |-> NilURL, err |-> NilError]]

InitGets ==
    /\ NoRequest
    /\ call = NoCall
    /\ first = <<>>
    /\ attempts = <<>>
    /\ sent = <<>>
    /\ gets = <<>>

\* getEpub, lines 262-267: GetHTML calls get on the URL of the request with
\* the user agent of the request.
GetArticle ==
    /\ Len(gets) < MaxGets
    /\ \E rq \in Requests :
          gets' = Append(gets, NewGet("GetHTML", Len(gets) + 1, rq.url,
                                      UserAgentOrDefault(rq.ua)))
    /\ UNCHANGED <<mainVars, call, first, attempts, sent>>

\* Readable of the request whose article get i fetched: downloadImage calls
\* get on an image URL with the UserAgent of the ReadableArgs.
GetImage(i) ==
    /\ Len(gets) < MaxGets
    /\ gets[i].by = "GetHTML"
    /\ gets[i].pc = "returned"
    /\ gets[i].ret.err = NilError
    /\ gets' = Append(gets, NewGet("downloadImage", i, FullB,
                                   ReadableArgs(gets[i].ret.url, gets[i].ua).UserAgent))
    /\ UNCHANGED <<mainVars, call, first, attempts, sent>>

\* client.Do inside get, one response at a time, and the return of get: the
\* server redirects, or the final response has the status r.code.
Do(i) ==
    /\ gets[i].pc = "Do"
    /\ \E r \in Responses :
        LET g == gets[i]
        IN  IF r.kind = "redirect"
            THEN LET c == CheckRedirect(Location(g.req), Append(g.via, g.req), g.lastURL)
                 IN  IF c.err # NilError
                     THEN gets' = [gets EXCEPT ![i].redirects = @ + 1,
                                      ![i].pc = "returned",
                                      ![i].lastURL = c.lastURL,
                                      ![i].ret = [body |-> "nil", url |-> NilURL, err |-> c.err]]
                     ELSE gets' = [gets EXCEPT ![i].redirects = @ + 1,
                                      ![i].via = Append(g.via, g.req),
                                      ![i].req = Location(g.req),
                                      ![i].lastURL = c.lastURL]
            ELSE IF UnexpectedStatus(r.code)
            THEN gets' = [gets EXCEPT ![i].pc = "returned", ![i].status = r.code,
                             ![i].body = "drained and closed",
                             ![i].ret = [body |-> "nil", url |-> NilURL,
                                         err |-> Error("unexpected status code: %d", r.code)]]
            ELSE gets' = [gets EXCEPT ![i].pc = "returned", ![i].status = r.code,
                             ![i].body = "open",
                             ![i].ret = [body |-> "resp.Body", url |-> g.lastURL,
                                         err |-> NilError]]
    /\ UNCHANGED <<mainVars, call, first, attempts, sent>>

NextGets ==
    \/ GetArticle
    \/ \E i \in DOMAIN gets : GetImage(i)
    \/ \E i \in DOMAIN gets : Do(i)

SpecGets == InitGets /\ [][NextGets]_vars

\* The calls of get that returned after a final response.
Answered == {i \in DOMAIN gets : gets[i].pc = "returned" /\ gets[i].status # 0}

\* C16 as claimed: get succeeds for every response whose status is 2xx, and
\* for every response whose status N is not 2xx it drains and closes the
\* body and returns the error `unexpected status code: N`.
C16_Every2xxSucceeds ==
    \A i \in Answered :
        LET g == gets[i]
        IN  /\ g.status \in 200..299 =>
                  g.ret.err = NilError /\ g.ret.body = "resp.Body" /\ g.body = "open"
            /\ g.status \notin 200..299 =>
                  /\ g.body = "drained and closed"
                  /\ g.ret.err = [msg |-> "unexpected status code: %d", code |-> g.status]

\* C16 as amended: get succeeds exactly for the responses whose status is
\* 200; for every response whose status N is not 200, the other 2xx
\* included, it drains and closes the body, returns no body and no URL, and
\* returns the error `unexpected status code: N`.
C16_Only200Succeeds ==
    \A i \in Answered :
        LET g == gets[i]
        IN  /\ g.status = 200 =>
                  g.ret.err = NilError /\ g.ret.body = "resp.Body" /\ g.body = "open"
            /\ g.status # 200 =>
                  /\ g.body = "drained and closed"
                  /\ g.ret.body = "nil"
                  /\ g.ret.url = NilURL
                  /\ g.ret.err = [msg |-> "unexpected status code: %d", code |-> g.status]

\* A get that met a 204 and one that met a 404.
C16_Witness ==
    /\ Len(gets) = 2
    /\ gets[1].pc = "returned" /\ gets[1].status = 204
    /\ gets[1].ret.err = [msg |-> "unexpected status code: %d", code |-> 204]
    /\ gets[2].pc = "returned" /\ gets[2].status = 404

\* C17: a fetch follows at most nine redirects: the tenth redirect of a
\* chain makes it fail with the error `stopped after 10 redirects`, no fetch
\* fails with that error earlier, and a fetch that met fewer than ten
\* redirects keeps requesting until it has a final response.
C17_RedirectCap ==
    \A i \in DOMAIN gets :
        LET g == gets[i]
        IN  /\ g.redirects <= 10
            /\ Len(g.via) <= 9
            /\ g.pc = "Do" => g.redirects < 10
            /\ g.pc = "returned" =>
                  /\ g.redirects = 10 <=> g.ret.err.msg = "stopped after 10 redirects"
                  /\ g.redirects < 10 => g.status # 0 /\ Len(g.via) = g.redirects

\* One fetch stopped at its tenth redirect while another was answered after
\* nine.
C17_Witness ==
    /\ Len(gets) = 2
    /\ gets[1].pc = "returned"
    /\ gets[1].ret.err.msg = "stopped after 10 redirects"
    /\ gets[2].pc = "returned"
    /\ gets[2].redirects = 9
    /\ gets[2].ret.err = NilError

RECURSIVE Redirected(_, _)
\* The URL of the request after n redirects from u.
Redirected(u, n) ==
    IF n = 0 THEN u ELSE [Redirected(u, n - 1) EXCEPT !.segs = Append(@, "moved")]

\* C18: the URL a successful get returns is the URL of the last request of
\* its own redirect chain, the URL it was called with when there was no
\* redirect, whatever other calls of get are under way.
C18_FinalURLOfOwnChain ==
    \A i \in DOMAIN gets :
        (gets[i].pc = "returned" /\ gets[i].ret.err = NilError) =>
            /\ gets[i].ret.url = gets[i].req
            /\ gets[i].ret.url = Redirected(gets[i].src, gets[i].redirects)

\* Two fetches of different URLs that both succeeded, one after redirects
\* and one without.
C18_Witness ==
    /\ Len(gets) = 2
    /\ gets[1].src # gets[2].src
    /\ gets[1].by = "GetHTML" /\ gets[2].by = "GetHTML"
    /\ gets[1].pc = "returned" /\ gets[1].ret.err = NilError /\ gets[1].redirects = 2
    /\ gets[2].pc = "returned" /\ gets[2].ret.err = NilError /\ gets[2].redirects = 0

\* The User-Agent header of the requests of get i; without a header Go's
\* transport sends its own.
WireUserAgent(i) == IF gets[i].header = "" THEN "Go-http-client/1.1" ELSE gets[i].header

\* C20: every image GET of a request carries the same User-Agent as the
\* article fetch of that request.
C20_ImagesUseArticleUserAgent ==
    \A i \in DOMAIN gets :
        gets[i].by = "downloadImage" =>
            /\ gets[i].ua = gets[gets[i].request].ua
            /\ WireUserAgent(i) = WireUserAgent(gets[i].request)

\* An image GET without the User-Agent of the article fetch of its request:
\* the caller's user agent was passed through to GetHTML only.
C20_FailingInput ==
    \E i \in DOMAIN gets :
        /\ gets[i].by = "downloadImage"
        /\ gets[gets[i].request].ua = "Mozilla/5.0"
        /\ gets[i].header = ""

\* ------------------------------------------------------ grayscale.Downscale

\* The largest side of an image and the largest fit of the small cases.
MaxSide == 12
MaxFit == 8

\* Sides and fits: the small ones, and those of a 1024x768 image fitted in
\* 200.
Sides == 0..MaxSide \cup {768, 1024}
Fits == -1..MaxFit \cup {200}

\* No request, no handler and no fetch: one function is called on its own.
OnlyCall ==
    /\ NoRequest
    /\ first = <<>>
    /\ attempts = <<>>
    /\ sent = <<>>
    /\ gets = <<>>

\* A float64 that is a quotient of two integers, kept exact.
Ratio(n, d) == [n |-> n, d |-> d]

\* a < b for two quotients with positive denominators.
RatioLess(a, b) == a.n * b.d < b.n * a.d

\* float64(fit) / float64(size): +Inf for an empty side, which is below no
\* ratio.
FitRatio(fit, size) == IF size = 0 THEN Ratio(1, 0) ELSE Ratio(fit, size)

\* A ratio that looks at the width alone.
DownscaleRatioX(sizeX, sizeY, fit) ==
    IF sizeX # 0 /\ RatioLess(FitRatio(fit, sizeX), Ratio(1, 1))
    THEN [scaled |-> TRUE, ratio |-> FitRatio(fit, sizeX)]
    ELSE [scaled |-> FALSE, ratio |-> Ratio(1, 1)]

\* Downscale, lines 18-31: ratio starts at 1.0, is lowered to ratioX and
\* then to ratioY when they are smaller, and scaled tells whether it was.
DownscaleRatio(sizeX, sizeY, fit) ==
    LET afterX == IF sizeX # 0 /\ RatioLess(FitRatio(fit, sizeX), Ratio(1, 1))
                  THEN [scaled |-> TRUE, ratio |-> FitRatio(fit, sizeX)]
                  ELSE [scaled |-> FALSE, ratio |-> Ratio(1, 1)]
    IN  IF sizeY # 0 /\ RatioLess(FitRatio(fit, sizeY), afterX.ratio)
        THEN [scaled |-> TRUE, ratio |-> FitRatio(fit, sizeY)]
        ELSE afterX

\* int(math.Round(float64(size) * ratio)): halves round away from zero.
RoundScaled(size, ratio) == (2 * size * ratio.n + ratio.d) \div (2 * ratio.d)

\* Downscale of an image of sizeX x sizeY: whether the image returned is
\* img itself, and its size.
DownscaleOf(sizeX, sizeY, fit) ==
    IF fit <= 0 THEN [same |-> TRUE, X |-> sizeX, Y |-> sizeY]
    ELSE LET r == DownscaleRatio(sizeX, sizeY, fit)
         IN  IF ~r.scaled THEN [same |-> TRUE, X |-> sizeX, Y |-> sizeY]
             ELSE [same |-> FALSE,
                   X |-> RoundScaled(sizeX, r.ratio),
                   Y |-> RoundScaled(sizeY, r.ratio)]

InitDownscale ==
    /\ OnlyCall
    /\ call \in {[op |-> "Downscale", arg |-> <<x, y, fit>>, res |-> <<>>] :
                    x \in Sides, y \in Sides, fit \in Fits}

Downscale ==
    /\ call.op = "Downscale"
    /\ call.res = <<>>
    /\ call' = [call EXCEPT !.res =
                   <<DownscaleOf(call.arg[1], call.arg[2], call.arg[3])>>]
    /\ UNCHANGED <<mainVars, first, attempts, sent, gets>>

NextDownscale == Downscale

SpecDownscale == InitDownscale /\ [][NextDownscale]_vars

\* |a|
Abs(a) == IF a < 0 THEN -a ELSE a

\* C21: Downscale returns its input unchanged when fit <= 0 or both sides
\* are at most fit; otherwise the larger side of the output is at most fit
\* and each side is within one pixel of the input side scaled by
\* fit / (larger input side), so that 1024x768 fitted in 200 gives 200x150.
C21_FitsAndKeepsAspect ==
    (call.op = "Downscale" /\ call.res # <<>>) =>
        LET x == call.arg[1]
            y == call.arg[2]
            fit == call.arg[3]
            larger == IF x > y THEN x ELSE y
            res == call.res[1]
        IN  /\ (fit <= 0 \/ (x <= fit /\ y <= fit)) =>
                  res.same /\ res.X = x /\ res.Y = y
            /\ ~(fit <= 0 \/ (x <= fit /\ y <= fit)) =>
                  /\ ~res.same
                  /\ res.X <= fit /\ res.Y <= fit
                  /\ Abs(res.X * larger - x * fit) <= larger
                  /\ Abs(res.Y * larger - y * fit) <= larger
            /\ (x = 1024 /\ y = 768 /\ fit = 200) => (res.X = 200 /\ res.Y = 150)

\* The 1024x768 image fitted in 200.
C21_Witness ==
    /\ call.op = "Downscale"
    /\ call.arg = <<1024, 768, 200>>
    /\ call.res = <<[same |-> FALSE, X |-> 200, Y |-> 150]>>

\* --------------------------------------------------------- the /epub handler

StatusBadRequest == 400

\* The form values and the header of a request of /epub that getEpub is
\* called with.
RestRequests ==
    [url : {<<"https://", "example.com", "/", "a">>},
     gray : BOOLEAN,
     fit : {0, 200},
     passthroughUA : BOOLEAN,
     userAgentHeader : {"", "Mozilla/5.0"}]

\* What getEpub returns: a title, the buffer and no error; or one of its
\* errors, without a buffer when Epub was not called and with the buffer
\* Epub was writing into when Epub failed.
GetEpubReturns ==
    {[title |-> t, data |-> d, err |-> <<>>] :
        t \in {"", "Hello"}, d \in {<<"PK", "mimetype">>, <<"PK", "mimetype", "images">>}}
      \cup {[title |-> "", data |-> <<"nil">>, err |-> e] :
               e \in GetEpubErrors \ {<<"unable to create epub", "zip">>}}
      \cup {[title |-> "Hello", data |-> <<"PK">>, err |-> <<"unable to create epub", "zip">>]}

RECURSIVE ErrorString(_, _)
\* err.Error(): the message of an error chain, each error printing the one
\* it wraps after its own text; the UnsupportedURL error prints the wrapped
\* error first and the URL after it.
ErrorString(e, url) ==
    IF e = <<>> THEN <<>>
    ELSE IF Head(e) = "%w: %q" THEN ErrorString(Tail(e), url) \o <<": ">> \o url
    ELSE IF Len(e) = 1 THEN <<Head(e)>>
    ELSE <<Head(e), ": ">> \o ErrorString(Tail(e), url)

\* http.Error(w, msg, code): the headers it sets, the status and the
\* message with a newline.
HttpError(msg, code) ==
    [status |-> code,
     header |-> [k \in {"content-type", "x-content-type-options"} |->
                    IF k = "content-type" THEN "text/plain; charset=utf-8" ELSE "nosniff"],
     body |-> msg \o <<"\n">>]

\* restEpubHandler, lines 198-203: the headers of an EPUB and its bytes,
\* with the status a first write implies.
EpubResponse(title, data) ==
    [status |-> StatusOK,
     header |-> [k \in {"content-disposition", "content-type", "content-length"} |->
                    CASE k = "content-disposition" ->
                             <<"attachment; filename*=UTF-8''", title, ".epub">>
                      [] k = "content-type" -> <<EpubMimeType>>
                      [] k = "content-length" -> <<Len(data)>>],
     body |-> data]

\* A handler that does not return after http.Error: the EPUB headers come
\* too late for the header block, the bytes follow the message.
RestResponseNoReturn(rq, ret) ==
    IF ret.err # <<>>
    THEN [HttpError(ErrorString(ret.err, rq.url), StatusBadRequest) EXCEPT
             !.body = @ \o ret.data]
    ELSE EpubResponse(ret.title, ret.data)

\* restEpubHandler, lines 193-203: what it writes on w once getEpub has
\* returned ret.
RestResponse(rq, ret) ==
    IF ret.err # <<>>
    THEN HttpError(ErrorString(ret.err, rq.url), StatusBadRequest)
    ELSE EpubResponse(ret.title, ret.data)

\* restEpubHandler, lines 187-192: the ua getEpub is called with.
RestUserAgent(rq) == IF rq.passthroughUA THEN rq.userAgentHeader ELSE defaultUserAgent

InitRest ==
    /\ OnlyCall
    /\ call \in {[op |-> "restEpubHandler", arg |-> <<rq>>, res |-> <<>>] :
                    rq \in RestRequests}

\* restEpubHandler: getEpub is called and returns ret, and the handler
\* answers.
restEpubHandler ==
    /\ call.op = "restEpubHandler"
    /\ call.res = <<>>
    /\ \E ret \in GetEpubReturns :
          call' = [call EXCEPT !.res =
                      <<[ua |-> RestUserAgent(call.arg[1]), ret |-> ret,
                         w |-> RestResponse(call.arg[1], ret)]>>]
    /\ UNCHANGED <<mainVars, first, attempts, sent, gets>>

NextRest == restEpubHandler

SpecRest == InitRest /\ [][NextRest]_vars

\* C22: whenever getEpub returns an error, the /epub handler answers with
\* status 400 and the message of the error as a text/plain body, and sends
\* neither a header of the EPUB response nor a byte of the buffer.
C22_ErrorIs400PlainText ==
    (call.op = "restEpubHandler" /\ call.res # <<>> /\ call.res[1].ret.err # <<>>) =>
        LET w == call.res[1].w
            ret == call.res[1].ret
        IN  /\ w.status = 400
            /\ w.header["content-type"] = "text/plain; charset=utf-8"
            /\ "content-disposition" \notin DOMAIN w.header
            /\ "content-length" \notin DOMAIN w.header
            /\ w.body = ErrorString(ret.err, call.arg[1].url) \o <<"\n">>
            /\ \A k \in DOMAIN w.body : w.body[k] # "PK"

\* Epub failed after it had written into the buffer getEpub returns.
C22_Witness ==
    /\ call.op = "restEpubHandler"
    /\ call.res # <<>>
    /\ call.res[1].ret.err = <<"unable to create epub", "zip">>
    /\ call.res[1].ret.data = <<"PK">>
    /\ call.res[1].w.status = 400
    /\ call.res[1].w.body = <<"unable to create epub", ": ", "zip", "\n">>

\* ---------------------------------------------------------- image slots

\* C23: each image worker writes only its own slot, which the distiller put
\* in the map before it started the worker; a worker neither adds nor
\* removes a key of the map nor touches the slot of another worker; the
\* distiller alone adds keys, each with an empty slot, and it reads the
\* slots only once no worker is running.
C23_WorkersOwnSlots ==
    [][/\ \A f \in DOMAIN imgPointers :
              (f \in DOMAIN imgPointers' /\ imgPointers'[f] # imgPointers[f]) =>
                  /\ f \in DOMAIN workers
                  /\ workers[f].st = "running"
                  /\ workers'[f].st # "running"
                  /\ DOMAIN imgPointers' = DOMAIN imgPointers
                  /\ \A g \in DOMAIN imgPointers \ {f} :
                         imgPointers'[g] = imgPointers[g] /\ workers'[g] = workers[g]
       /\ DOMAIN imgPointers' # DOMAIN imgPointers =>
              /\ pc = "walk"
              /\ DOMAIN imgPointers \subseteq DOMAIN imgPointers'
              /\ \A f \in DOMAIN imgPointers' \ DOMAIN imgPointers :
                     /\ imgPointers'[f] = NilReader
                     /\ f \notin DOMAIN workers
                     /\ workers'[f].st = "running"
              /\ \A f \in DOMAIN imgPointers : imgPointers'[f] = imgPointers[f]
       /\ (\E f \in DOMAIN workers : workers'[f] # workers[f]) =>
              \E f \in DOMAIN workers :
                  /\ workers[f].st = "running"
                  /\ \A g \in DOMAIN workers \ {f} : workers'[g] = workers[g]
       /\ (returned' = "ok" /\ returned # "ok") =>
              /\ \A f \in DOMAIN workers : workers[f].st # "running"
              /\ DOMAIN workers = DOMAIN imgPointers
              /\ images' = [f \in DOMAIN imgPointers |->
                               IF imgPointers[f] = NilReader THEN EmptyStringsReader
                               ELSE imgPointers[f]]
      ]_vars

\* Readable returned after two workers: one filled its slot, the other left
\* it empty.
C23_Witness ==
    /\ returned = "ok"
    /\ Cardinality(DOMAIN workers) = 2
    /\ \E f, g \in DOMAIN imgPointers :
          /\ imgPointers[f] # NilReader
          /\ imgPointers[g] = NilReader
          /\ images[g] = EmptyStringsReader

\* ------------------------------------------------- the article threshold

RECURSIVE Reached(_, _, _)
\* Every node on the way from a down to the parent of j is an element of
\* the whitelist.
Reached(d, a, j) ==
    IF j = a THEN TRUE
    ELSE /\ d[j].parent # 0
         /\ d[d[j].parent].Type = "element"
         /\ d[d[j].parent].Data \in DOMAIN atoms
         /\ Reached(d, a, d[j].parent)

\* A node that counts: an element of the whitelist or a text node that is
\* not all white space.
Counts(d, j) ==
    \/ d[j].Type = "element" /\ d[j].Data \in DOMAIN atoms
    \/ d[j].Type = "text" /\ ~IsBlank(d[j].Data)

\* The countable nodes of the subtree of a.
CountableNodes(d, a) ==
    {j \in a..SubtreeEnd(d, a) : Counts(d, j) /\ Reached(d, a, j)}

\* C24: when the document has an <article>, minArticleNodes > 0 and the
\* subtree of the article holds fewer than minArticleNodes countable nodes,
\* the tree a successful Readable returns has the distilled <body> of the
\* document as its body, not a body made around the article.
C24_SmallArticleFallsBack ==
    (returned = "ok" /\ minArticleNodes > 0) =>
        \A a \in {FindFirstAtomNode(doc, "article")} :
            (/\ a # 0
             /\ Cardinality(CountableNodes(doc, a)) < minArticleNodes) =>
                /\ ~tree.article
                /\ tree.body = FindFirstAtomNode(doc, "body")
                /\ tree.body # 0

\* A document whose article is below the threshold of 5 was distilled from
\* its <body>.
C24_Witness ==
    /\ returned = "ok"
    /\ FindFirstAtomNode(doc, "article") # 0
    /\ minArticleNodes = 5
    /\ Cardinality(CountableNodes(doc, FindFirstAtomNode(doc, "article"))) < 5
    /\ tree.body = FindFirstAtomNode(doc, "body")

\* ------------------------------------------------ the source of an image

\* An accepted URL for each attribute an image source is looked up in, and
\* the srcset of two accepted items.
SrcOfKey(key) ==
    CASE key = imgSrc -> UrlVal(URL("https", "example.com", TRUE, <<"src.png">>))
      [] key = "nitro-lazy-src" -> UrlVal(URL("https", "example.com", TRUE, <<"nitro.png">>))
      [] key = "data-src" -> UrlVal(URL("https", "example.com", TRUE, <<"lazy.png">>))
      [] key = imgSrcset ->
            SrcsetVal(<<SrcsetItem(URL("", "", FALSE, <<"small.jpg">>), 320),
                        SrcsetItem(URL("", "", FALSE, <<"big.jpg">>), 1280)>>)

\* A value tryParseImgURL rejects, for each attribute.
RejectedOfKey(key) ==
    IF key = imgSrcset THEN SrcsetVal(<<SrcsetItem(DataURL, 640)>>) ELSE UrlVal(DataURL)

SrcKeys == {imgSrc, "nitro-lazy-src", "data-src", imgSrcset}

\* The attribute lists of an image element: some of the four attributes, in
\* any order, each with a value that is accepted or rejected.
SrcAttrLists ==
    UNION {{[k \in DOMAIN keys |->
                Attr(keys[k], IF ok[k] THEN SrcOfKey(keys[k]) ELSE RejectedOfKey(keys[k]))] :
              ok \in [DOMAIN keys -> BOOLEAN]} :
           keys \in UNION {RangeOrders(S) : S \in SUBSET SrcKeys}}

InitFindSrc ==
    /\ OnlyCall
    /\ call \in {[op |-> "findSrcURL", arg |-> <<Elem(tag, attrs, 0)>>, res |-> <<>>] :
                    tag \in {"img", "source", "amp-img"}, attrs \in SrcAttrLists}

\* readableRecursive, lines 594-620, on one image element: the attribute
\* loop and findSrcURLFromIMGNode.
FindSrcURL ==
    /\ call.op = "findSrcURL"
    /\ call.res = <<>>
    /\ call' = [call EXCEPT !.res = <<ImageSrcURL(call.arg[1])>>]
    /\ UNCHANGED <<mainVars, first, attempts, sent, gets>>

NextFindSrc == FindSrcURL

SpecFindSrc == InitFindSrc /\ [][NextFindSrc]_vars

\* The position of the attribute key in attrs, 0 when it is absent.
AttrIndex(attrs, key) ==
    IF \E i \in DOMAIN attrs : attrs[i].Key = key
    THEN CHOOSE i \in DOMAIN attrs : attrs[i].Key = key
    ELSE 0

\* A value that is a URL whose scheme is empty, http or https.
Accepted(val) ==
    val.kind = "url" /\ val.u.ok /\ val.u.scheme \in {"", "http", "https"}

\* The highest-width entry of the srcset of attrs, NilURL without one.
SrcsetCandidate(attrs) ==
    IF AttrIndex(attrs, "srcset") = 0 THEN NilURL
    ELSE tryParseImgSrcset(attrs[AttrIndex(attrs, "srcset")].Val)

\* The first accepted value among the keys tried in the order `keys`, then
\* the srcset.
FirstAccepted(attrs, keys) ==
    LET hits == {k \in DOMAIN keys :
                    /\ AttrIndex(attrs, keys[k]) # 0
                    /\ Accepted(attrs[AttrIndex(attrs, keys[k])].Val)}
    IN  IF hits # {}
        THEN attrs[AttrIndex(attrs, keys[CHOOSE k \in hits : \A h \in hits : k <= h])].Val.u
        ELSE SrcsetCandidate(attrs)

\* The alternative attributes of attrs in the order they stand on the
\* element.
AlternativesAsWritten(attrs) ==
    LET at == {i \in DOMAIN attrs : attrs[i].Key \in {"nitro-lazy-src", "data-src"}}
    IN  [k \in 1..Cardinality(at) |->
            attrs[CHOOSE i \in at : Cardinality({j \in at : j < i}) = k - 1].Key]

\* C25 as claimed: the candidate URL of an <img> or <source> is the first
\* accepted of src, nitro-lazy-src, data-src (in that order) and the
\* highest-width entry of srcset.
C25_ListedKeyOrder ==
    (call.op = "findSrcURL" /\ call.res # <<>>) =>
        call.res[1] = FirstAccepted(call.arg[1].Attr, <<"src", "nitro-lazy-src", "data-src">>)

\* C25 as amended: the candidate URL is the first accepted of src, then,
\* for an <img> or <amp-img> only, the attributes nitro-lazy-src and data-src
\* in the order they are written on the element, then the highest-width
\* entry of srcset; on a <source> the two alternative attributes are not
\* looked at.
C25_WrittenKeyOrder ==
    (call.op = "findSrcURL" /\ call.res # <<>>) =>
        call.res[1] =
            FirstAccepted(call.arg[1].Attr,
                          <<"src">> \o (IF call.arg[1].Data \in {"img", "amp-img"}
                                        THEN AlternativesAsWritten(call.arg[1].Attr)
                                        ELSE <<>>))

\* An <img> with a rejected src, data-src written before nitro-lazy-src and
\* both accepted: the URL of data-src is the candidate.
C25_Witness ==
    /\ call.op = "findSrcURL"
    /\ call.arg[1].Data = "img"
    /\ Len(call.arg[1].Attr) = 4
    /\ call.arg[1].Attr[1] = Attr("src", UrlVal(DataURL))
    /\ call.arg[1].Attr[2].Key = "data-src"
    /\ call.arg[1].Attr[3].Key = "nitro-lazy-src"
    /\ call.res = <<URL("https", "example.com", TRUE, <<"lazy.png">>)>>

\* --------------------------------------------- an <amp-img> with a srcset

SmallJPG == URL("", "", FALSE, <<"small.jpg">>)
BigJPG == URL("", "", FALSE, <<"big.jpg">>)

\* <amp-img src="small.jpg" srcset="small.jpg 320w, big.jpg 1280w">
AmpImgExample ==
    Elem("amp-img", <<Attr(imgSrc, UrlVal(SmallJPG)),
                      Attr(imgSrcset, SrcsetVal(<<SrcsetItem(SmallJPG, 320),
                                                  SrcsetItem(BigJPG, 1280)>>))>>, 0)

\* The element as the only content of the body, alone or after a paragraph.
AmpDocs == {DocOf(<<(<<AmpImgExample>>)>>), DocOf(<<BlockPara, <<AmpImgExample>>>>)}

\* getEpub on a page whose only image is the element.
InitAmp ==
    /\ doc \in AmpDocs
    /\ gray \in BOOLEAN
    /\ minArticleNodes \in MinArticleChoices
    /\ ctx = "live" /\ cancelledAt = "never" /\ pc = "GetHTML" /\ phase = "none"
    /\ root = 0 /\ pos = 0
    /\ out = [i \in DOMAIN doc |-> NilNode]
    /\ imgMapping = <<>> /\ imgCounter = 0 /\ imgPointers = <<>>
    /\ wg = 0 /\ workers = <<>> /\ met = <<>>
    /\ returned = "no" /\ tree = NoTree /\ images = <<>> /\ err = ""
    /\ epubCalled = FALSE /\ zip = <<>> /\ imageContentTypes = <<>>
    /\ call = NoCall /\ first = <<>> /\ attempts = <<>> /\ sent = <<>> /\ gets = <<>>

SpecAmp == InitAmp /\ [][Next]_vars

\* The position of the element in the document.
AmpPos == CHOOSE i \in DOMAIN doc : doc[i] = [AmpImgExample EXCEPT !.parent = 5]

\* The element the walk emitted for the <amp-img> is <img src="images/001.jpg">
\* and the goroutine of that file downloads from u.
AmpOutputFrom(u) ==
    /\ out[AmpPos] = OutElem("img", <<Attr(imgSrc, FileVal(LocalFilename(1, jpgExt)))>>)
    /\ DOMAIN workers = {LocalFilename(1, jpgExt)}
    /\ workers[LocalFilename(1, jpgExt)].url = ResolveReference(BaseURL, u)

\* C26 as claimed: for <amp-img src="small.jpg" srcset="small.jpg 320w,
\* big.jpg 1280w"> the output is <img src="images/001.jpg"> without a srcset,
\* and its bytes are downloaded from big.jpg.
C26_DownloadsLargest ==
    returned = "ok" => AmpOutputFrom(BigJPG)

\* C26 as amended: for that element the output is <img src="images/001.jpg">
\* without a srcset, and its bytes are downloaded from small.jpg, the src of
\* the element.
C26_DownloadsSrc ==
    returned = "ok" => AmpOutputFrom(SmallJPG)

\* Readable has returned the tree with the <img>, and the file was downloaded.
C26_Witness ==
    /\ returned = "ok"
    /\ out[AmpPos].Type = "element"
    /\ workers[LocalFilename(1, jpgExt)].st = "copied"
    /\ pc = "done" /\ zip # <<>>

\* ---------------------------------------------------- the parse of a srcset

\* The most items of a srcset.
MaxItems == 3

\* One comma-separated item of a srcset as srcsetRE reads it: no match (the
\* empty item), or the url group and the digits of the width group, <<>>
\* when the item has no width descriptor.
RawItem(u, digits) == [match |-> TRUE, u |-> u, digits |-> digits]
EmptyItem == [match |-> FALSE, u |-> BadURL, digits |-> <<>>]

RawItems ==
    {RawItem(u, ds) : u \in {SmallJPG, BigJPG, DataURL},
                      ds \in {<<>>, <<"0">>, <<"3", "2", "0">>, <<"6", "4", "0">>}}
        \cup {EmptyItem}

\* An item without a descriptor that can never be the maximum.
ParseWidthAbsentLowest(group) == IF group = <<>> THEN -1 ELSE ParseDigits(group)

\* width, _ := strconv.ParseInt(groups[2], 10, 64): the error of the empty
\* group is dropped and the width is 0.
ParseWidth(group) == IF group = <<>> THEN 0 ELSE ParseDigits(group)

\* The items of a srcset as the loop of tryParseImgSrcset sees them
\* (strings.Split yields at least one item).
SrcsetOf(raws) ==
    SrcsetVal([k \in DOMAIN raws |->
                 IF raws[k].match THEN SrcsetItem(raws[k].u, ParseWidth(raws[k].digits))
                 ELSE SrcsetNoMatch])

InitSrcset ==
    /\ OnlyCall
    /\ call \in {[op |-> "tryParseImgSrcset", arg |-> <<raws>>, res |-> <<>>] :
                    raws \in SeqsUpTo(RawItems, MaxItems) \ {<<>>}}

TryParseImgSrcset ==
    /\ call.op = "tryParseImgSrcset"
    /\ call.res = <<>>
    /\ call' = [call EXCEPT !.res = <<tryParseImgSrcset(SrcsetOf(call.arg[1]))>>]
    /\ UNCHANGED <<mainVars, first, attempts, sent, gets>>

NextSrcset == TryParseImgSrcset

SpecSrcset == InitSrcset /\ [][NextSrcset]_vars

\* The width an item stands for: its descriptor, 0 without one.
DescriptorWidth(raw) == IF raw.digits = <<>> THEN 0 ELSE ParseDigits(raw.digits)

\* The first of the items at the positions `among` whose width is the largest
\* of them, 0 when there is none.
FirstWidest(raws, among) ==
    IF among = {} THEN 0
    ELSE CHOOSE k \in among :
            /\ \A j \in among : DescriptorWidth(raws[j]) <= DescriptorWidth(raws[k])
            /\ \A j \in among : DescriptorWidth(raws[j]) = DescriptorWidth(raws[k]) => k <= j

\* The URL the parse yields when it picks item k.
PickedURL(raws, k) == IF k = 0 THEN NilURL ELSE tryParseImgURL(UrlVal(raws[k].u))

\* C27 as claimed: srcset parsing picks the item with the largest width
\* descriptor, an item without a descriptor counting as width 0; among items
\* with the same largest width the one seen first wins.
C27_WidestItem ==
    (call.op = "tryParseImgSrcset" /\ call.res # <<>>) =>
        call.res[1] = PickedURL(call.arg[1],
                                FirstWidest(call.arg[1],
                                            {k \in DOMAIN call.arg[1] : call.arg[1][k].match}))

\* C27 as amended: srcset parsing picks, among the items whose URL is
\* accepted (it parses and its scheme is empty, http or https), the item with
\* the largest width descriptor, an item without a descriptor counting as
\* width 0; among those with the same largest width the one seen first wins.
C27_WidestAcceptedItem ==
    (call.op = "tryParseImgSrcset" /\ call.res # <<>>) =>
        call.res[1] = PickedURL(call.arg[1],
                                FirstWidest(call.arg[1],
                                            {k \in DOMAIN call.arg[1] :
                                                /\ call.arg[1][k].match
                                                /\ Accepted(UrlVal(call.arg[1][k].u))}))

\* "data:x 640w, small.jpg, big.jpg 0w": the widest item is rejected, the two
\* others tie at width 0 and the first of them is picked.
C27_Witness ==
    /\ call.op = "tryParseImgSrcset"
    /\ call.arg[1] = <<RawItem(DataURL, <<"6", "4", "0">>), RawItem(SmallJPG, <<>>),
                       RawItem(BigJPG, <<"0">>)>>
    /\ call.res = <<SmallJPG>>

\* ------------------------------------------------------------- prettySize

\* The sizes from 0 up that are all tried.
MaxSmallSize == 120

\* Sizes around the places where the unit or the rounding changes, and the
\* sizes of TestPrettySize.
NotableSizes ==
    {128, 972, 973, 1000, 1024, 1280, 1792, 940 * 1024, 996147, 996148,
     1024 * 1024 - 1, 1024 * 1024, 1024 * 1024 + 512 * 256, 1000 * 1000 * 1000,
     2147483647}

Sizes == 0..MaxSmallSize \cup NotableSizes

\* A list of units that ends at KiB.
sizeUnitsKiBOnly == <<"KiB">>

sizeUnits == <<"KiB", "MiB">>

\* 1024 to the power k.
Pow1024(k) == IF k = 1 THEN 1024 ELSE 1024 * 1024

\* fmt.Sprintf("%d B", size)
SprintfBytes(size) == Digits(size) \o <<" ", "B">>

\* fmt.Sprintf("%.1f %s", n, unit) for n = size / den: the quotient rounded
\* to the nearest tenth, an exact half to the even tenth.
SprintfOneDecimal(size, den, unit) ==
    LET q == size \div den
        x == 10 * (size % den)
        t == 10 * q + x \div den
        rem == x % den
        tenths == IF 2 * rem > den \/ (2 * rem = den /\ t % 2 = 1) THEN t + 1 ELSE t
    IN  Digits(tenths \div 10) \o <<".", DigitChar(tenths % 10), " ", unit>>

RECURSIVE prettySizeLoop(_, _, _)
\* The loop of prettySize from unit k on, s the rendering so far; n < 0.95
\* for n = size / 1024^k is 20 * size < 19 * 1024^k.
prettySizeLoop(size, k, s) ==
    IF k > Len(sizeUnits) THEN s
    ELSE IF size <= (19 * Pow1024(k) - 1) \div 20 THEN s
    ELSE prettySizeLoop(size, k + 1, SprintfOneDecimal(size, Pow1024(k), sizeUnits[k]))

prettySize(size) == prettySizeLoop(size, 1, SprintfBytes(size))

InitPrettySize ==
    /\ OnlyCall
    /\ call \in {[op |-> "prettySize", arg |-> <<size>>, res |-> <<>>] : size \in Sizes}

PrettySize ==
    /\ call.op = "prettySize"
    /\ call.res = <<>>
    /\ call' = [call EXCEPT !.res = <<prettySize(call.arg[1])>>]
    /\ UNCHANGED <<mainVars, first, attempts, sent, gets>>

NextPrettySize == PrettySize

SpecPrettySize == InitPrettySize /\ [][NextPrettySize]_vars

\* n / unit < 0.95
Below095(n, unit) == 20 * (n \div unit) + (20 * (n % unit)) \div unit < 19

\* The renderings of n / unit with one decimal: every tenth nearest to the
\* quotient.
OneDecimal(n, unit, name) ==
    {Digits((10 * (n \div unit) + t) \div 10)
        \o <<".", DigitChar((10 * (n \div unit) + t) % 10), " ", name>> :
     t \in {t \in 0..10 : 2 * Abs(10 * (n % unit) - t * unit) <= unit}}

\* C28: prettySize(n) is `<n> B` when n/1024 < 0.95, otherwise n in KiB
\* with one decimal when n/1024/1024 < 0.95, otherwise n in MiB with one
\* decimal, whatever the size; 1000 gives `1.0 KiB`, 1024*1024-1 gives
\* `1.0 MiB` and 10^9 gives `953.7 MiB`.
C28_PrettySizeUnits ==
    (call.op = "prettySize" /\ call.res # <<>>) =>
        /\ call.res[1] \in
              (IF Below095(call.arg[1], 1024) THEN {Digits(call.arg[1]) \o <<" ", "B">>}
               ELSE IF Below095(call.arg[1], 1024 * 1024)
                    THEN OneDecimal(call.arg[1], 1024, "KiB")
                    ELSE OneDecimal(call.arg[1], 1024 * 1024, "MiB"))
        /\ call.arg[1] = 1000 => call.res[1] = <<"1", ".", "0", " ", "KiB">>
        /\ call.arg[1] = 1024 * 1024 - 1 => call.res[1] = <<"1", ".", "0", " ", "MiB">>
        /\ call.arg[1] = 1000 * 1000 * 1000
              => call.res[1] = <<"9", "5", "3", ".", "7", " ", "MiB">>

\* A size of 1024 MiB and more is still rendered in MiB.
C28_Witness ==
    /\ call.op = "prettySize"
    /\ call.arg[1] = 2147483647
    /\ call.res = <<(<<"2", "0", "4", "8", ".", "0", " ", "MiB">>)>>

\* --------------------------------------------- images and the manifest

\* The <img> elements of the tree Readable returned: those kept under its
\* <head> and under the root of its <body>.
ReturnedImgs ==
    {i \in (IF tree.head = 0 THEN {} ELSE Subtree(doc, tree.head))
            \cup (IF tree.body = 0 THEN {} ELSE Subtree(doc, tree.body)) :
        out[i] # NilNode /\ out[i].Type = "element" /\ out[i].Data = "img"}

\* The values of the src attributes of the returned node i.
SrcValues(i) == {out[i].Attr[k].Val : k \in {k \in DOMAIN out[i].Attr : out[i].Attr[k].Key = "src"}}

\* C29: after Readable returns successfully, every <img> of the returned
\* tree has a src attribute whose value is a key of the returned manifest
\* (no dangling reference), and every key of the manifest is the src of at
\* least one <img> of the tree (no orphan entry).
C29_ImagesMatchManifest ==
    returned = "ok" =>
        \A imgs \in {ReturnedImgs} :
            /\ \A i \in imgs :
                  /\ SrcValues(i) # {}
                  /\ \A v \in SrcValues(i) : v.kind = "file" /\ v.f \in DOMAIN images
            /\ \A f \in DOMAIN images : \E i \in imgs : FileVal(f) \in SrcValues(i)

\* Readable has returned a tree with two <img> that share one file.
C29_Witness ==
    /\ returned = "ok"
    /\ Cardinality(ReturnedImgs) = 2
    /\ Cardinality(DOMAIN images) = 1

\* ------------------------------------------- countRecursive on its own

\* The largest minCount countRecursive is called with.
MaxMinCount == 8

\* The documents whose nodes are counted: the blocks with text, with
\* elements outside the whitelist and with nested elements.
CountDocs ==
    {DocOf(bs) : bs \in SeqsUpTo({BlockPara, BlockJunk, BlockArticle, BlockPicture,
                                  BlockAmpImg}, MaxBlocks)}

InitCount ==
    /\ OnlyCall
    /\ call \in UNION {{[op |-> "countRecursive", arg |-> <<d, i, minCount>>, res |-> <<>>] :
                            i \in DOMAIN d, minCount \in 1..MaxMinCount} : d \in CountDocs}

CountRecursive ==
    /\ call.op = "countRecursive"
    /\ call.res = <<>>
    /\ call' = [call EXCEPT !.res = <<countRecursive(call.arg[1], call.arg[2], call.arg[3])>>]
    /\ UNCHANGED <<mainVars, first, attempts, sent, gets>>

NextCount == CountRecursive

SpecCount == InitCount /\ [][NextCount]_vars

\* C30: for every subtree and every minCount >= 1, countRecursive reports
\* hasMin = TRUE exactly when the subtree holds at least minCount countable
\* nodes (elements of the whitelist reached through elements of the
\* whitelist, and their text nodes that are not all white space); when it
\* reports FALSE the count it returns is the exact number of countable nodes.
C30_HasMinIffEnoughNodes ==
    (call.op = "countRecursive" /\ call.res # <<>>) =>
        \A n \in {Cardinality(CountableNodes(call.arg[1], call.arg[2]))} :
            /\ call.res[1].hasMin <=> n >= call.arg[3]
            /\ ~call.res[1].hasMin => call.res[1].count = n

\* A subtree of seven countable nodes: the minimum 7 is reported as reached.
C30_Witness ==
    /\ call.op = "countRecursive"
    /\ call.arg[3] = 7
    /\ Cardinality(CountableNodes(call.arg[1], call.arg[2])) = 7
    /\ call.res = <<[count |-> 0, hasMin |-> TRUE]>>

====
